---- MODULE Spec2Model ----
(***************************************************************************)
(* A model of the Aseprite sprite decoder (package aseprite and its        *)
(* internal blend package): the atlas packer, the blend-mode library and   *)
(* the decode pipeline ReadFrom -> initPalette -> initLayers -> initCels   *)
(* -> buildAtlas, with the entry points NewFile, Read and DecodeConfig.    *)
(***************************************************************************)
EXTENDS Integers, Sequences, FiniteSets, TLC

VARIABLES
    \* ---- atlas packer (makeAtlasFrames and factorPowerOfTwo called alone)
    nframes,    \* argument nframes of makeAtlasFrames
    framew,     \* argument framew
    frameh,     \* argument frameh
    grid,       \* result of factorPowerOfTwo(nframes), <<a, b>>, or <<>> before the call
    atlasr,     \* result atlasr of makeAtlasFrames, or NoRect before the call
    framesr,    \* result framesr of makeAtlasFrames
    \* ---- blend library (Blend and the mode functions called alone)
    blendMode,  \* index into the table Modes
    blendDst,   \* the pixel of the bottom layer (src1 of Blend, dst of a mode)
    blendSrc,   \* the pixel of the top layer (src0 of Blend, src of a mode)
    blendOut,   \* the colour Blend handed to dst.Set, NoColor before the call
    modeOut,    \* the colour Modes[blendMode](blendDst, blendSrc) returned, NoColor before
    \* ---- decode pipeline (Read and DecodeConfig applied to one input)
    input,      \* the bytes of the reader, as the records the code parses them into
    pc,         \* where Read is: the stage of NewFile it runs next, "Read", "done", "panic"
    file,       \* var f File of NewFile
    heap,       \* the rasters the cel decoder allocated; a cel's image points into it
    cur,        \* <<i, j>>: the chunk the loops of initCels come to next, <<0, 0>> at their end
    ran,        \* the stages that ran, in order, each with the error it reported
    nfRet,      \* what NewFile returned
    readRet,    \* what Read returned
    config,     \* what DecodeConfig returned
    lookups,    \* the palette indices the compositor looked up
    flt,        \* the calls of FilterLayers on the File of NewFile: how many, and the
                \* File before the last call and the layers its keep function kept
    newRet,     \* what New returned for the File after the calls of FilterLayers
    \* ---- frame reader (the frame loop of ReadFrom on the bytes of a file body)
    made,       \* the frame records the body was made of, and where it was cut
    raw,        \* the bytes of the body the loop has not consumed yet
    read,       \* f.frames: the frames appended so far
    rpc,        \* where the loop is: "frames", "done", "error", "panic"
    rerr,       \* the error ReadFrom returned
    \* ---- the build the program runs on
    nanByte     \* what byte(x) yields for a NaN x (Go leaves it to the implementation)

atlasVars == <<nframes, framew, frameh, grid, atlasr, framesr>>
blendVars == <<blendMode, blendDst, blendSrc, blendOut, modeOut>>
pipeVars == <<input, pc, file, heap, cur, ran, nfRet, readRet, config, lookups,
              flt, newRet>>
frameVars == <<made, raw, read, rpc, rerr>>
vars == <<atlasVars, blendVars, pipeVars, nanByte, frameVars>>

(***************************************************************************)
(* Bounds of the model.                                                    *)
(***************************************************************************)
MaxFrames == 17
MaxDim == 3

(***************************************************************************)
(* Small helpers.                                                          *)
(***************************************************************************)
Min2(x, y) == IF x <= y THEN x ELSE y
Max2(x, y) == IF x >= y THEN x ELSE y

RECURSIVE Pow2(_)
\* 1 << k
Pow2(k) == IF k <= 0 THEN 1 ELSE 2 * Pow2(k - 1)

RECURSIVE CeilLog2From(_, _)
\* the least x >= from with 2^x >= n
CeilLog2From(n, from) == IF Pow2(from) >= n THEN from ELSE CeilLog2From(n, from + 1)

\* int(math.Ceil(math.Log2(float64(n)))) for n >= 1: math.Log2 is exact on the
\* powers of two and strictly between two integers otherwise.
CeilLog2(n) == CeilLog2From(n, 0)

(***************************************************************************)
(* image.Point, image.Rectangle (package image of the Go library, as the   *)
(* decoder uses them).                                                     *)
(***************************************************************************)
Pt(x, y) == [X |-> x, Y |-> y]

\* image.Rectangle{Min, Max}
Rectangle(min, max) == [Min |-> min, Max |-> max]

\* image.Rect: the rectangle with its corners put in order
Rect(x0, y0, x1, y1) ==
    Rectangle(Pt(Min2(x0, x1), Min2(y0, y1)), Pt(Max2(x0, x1), Max2(y0, y1)))

NoRect == Rect(0, 0, 0, 0)

Dx(r) == r.Max.X - r.Min.X
Dy(r) == r.Max.Y - r.Min.Y
Empty(r) == r.Min.X >= r.Max.X \/ r.Min.Y >= r.Max.Y

\* Rectangle.In: every point of r is in s
RectIn(r, s) ==
    \/ Empty(r)
    \/ /\ s.Min.X <= r.Min.X /\ r.Max.X <= s.Max.X
       /\ s.Min.Y <= r.Min.Y /\ r.Max.Y <= s.Max.Y

\* Rectangle.Overlaps: r and s share a point
Overlaps(r, s) ==
    /\ ~Empty(r) /\ ~Empty(s)
    /\ r.Min.X < s.Max.X /\ s.Min.X < r.Max.X
    /\ r.Min.Y < s.Max.Y /\ s.Min.Y < r.Max.Y

(***************************************************************************)
(* The parts of the state a specification leaves alone.                    *)
(***************************************************************************)
\* the atlas packer not called
AtlasIdle ==
    /\ nframes = 0 /\ framew = 0 /\ frameh = 0
    /\ grid = <<>> /\ atlasr = NoRect /\ framesr = <<>>

\* no colour yet
NoColor == [model |-> "none", c |-> <<>>]

\* the blend library not called
BlendIdle ==
    /\ blendMode = 0 /\ blendDst = NoColor /\ blendSrc = NoColor
    /\ blendOut = NoColor /\ modeOut = NoColor

\* nothing returned yet
NotReturned == [returned |-> FALSE]

\* Read and DecodeConfig not called
FrameIdle ==
    /\ made = <<>> /\ raw = <<>> /\ read = <<>> /\ rpc = "idle" /\ rerr = "nil"

\* FilterLayers not called yet
NoCalls == [calls |-> 0, keep |-> {}, before |-> <<>>]

PipelineIdle ==
    /\ input = <<>> /\ pc = "idle" /\ file = <<>> /\ heap = <<>> /\ cur = <<0, 0>>
    /\ ran = <<>> /\ nfRet = NotReturned /\ readRet = NotReturned
    /\ config = NotReturned /\ lookups = {}
    /\ flt = NoCalls /\ newRet = NotReturned

(***************************************************************************)
(* Rational arithmetic: the blend library computes in float64; the model   *)
(* computes the same expressions exactly, as fractions <<n, d>> with d > 0 *)
(* in lowest terms.  +Inf and NaN, which float64 division by zero yields,  *)
(* are PosInf and NaN.                                                     *)
(***************************************************************************)
RECURSIVE Gcd(_, _)
Gcd(x, y) == IF y = 0 THEN x ELSE Gcd(y, x % y)

Abs(x) == IF x < 0 THEN -x ELSE x

\* n / d in lowest terms, d # 0
Frac(n, d) ==
    LET g == Gcd(Abs(n), Abs(d))
        s == IF d < 0 THEN -1 ELSE 1
    IN  <<s * (n \div g), s * (d \div g)>>

R(n) == <<n, 1>>
PosInf == <<1, 0>>
NaN == <<0, 0>>
IsFinite(a) == a[2] # 0

RAdd(a, b) ==
    LET g == Gcd(a[2], b[2])
    IN  Frac(a[1] * (b[2] \div g) + b[1] * (a[2] \div g), (a[2] \div g) * b[2])
RNeg(a) == <<-a[1], a[2]>>
RSub(a, b) == RAdd(a, RNeg(b))
RMul(a, b) ==
    LET g1 == Gcd(Abs(a[1]), b[2])
        g2 == Gcd(Abs(b[1]), a[2])
    IN  Frac((a[1] \div g1) * (b[1] \div g2), (a[2] \div g2) * (b[2] \div g1))
\* a / b, b # 0
RDiv(a, b) == RMul(a, IF b[1] < 0 THEN <<-b[2], -b[1]>> ELSE <<b[2], b[1]>>)
RLt(a, b) == RSub(a, b)[1] < 0
RMin(a, b) == IF RLt(b, a) THEN b ELSE a
RMax(a, b) == IF RLt(a, b) THEN b ELSE a
\* the integer part of a >= 0
RTrunc(a) == a[1] \div a[2]

(***************************************************************************)
(* Colours (package image/color of the Go library, as the decoder uses     *)
(* them).  A colour keeps its Go type: NRGBA and RGBA hold 8-bit channels, *)
(* Gray16 and Alpha16 one 16-bit sample.                                   *)
(***************************************************************************)
NRGBA(r, g, b, a) == [model |-> "NRGBA", c |-> <<r, g, b, a>>]
RGBA(r, g, b, a) == [model |-> "RGBA", c |-> <<r, g, b, a>>]
Gray16(y) == [model |-> "Gray16", c |-> <<y>>]
Alpha16(a) == [model |-> "Alpha16", c |-> <<a>>]

\* color.Black, color.Transparent
Black == Gray16(0)
Transparent == Alpha16(0)

\* Color.RGBA(): the alpha-premultiplied 16-bit channels <<r, g, b, a>>
ColorRGBA(col) ==
    CASE col.model = "NRGBA" ->
           <<(col.c[1] * 257 * col.c[4]) \div 255,
             (col.c[2] * 257 * col.c[4]) \div 255,
             (col.c[3] * 257 * col.c[4]) \div 255,
             col.c[4] * 257>>
      [] col.model = "RGBA" ->
           <<col.c[1] * 257, col.c[2] * 257, col.c[3] * 257, col.c[4] * 257>>
      [] col.model = "Gray16" -> <<col.c[1], col.c[1], col.c[1], 65535>>
      [] col.model = "Alpha16" -> <<col.c[1], col.c[1], col.c[1], col.c[1]>>

(***************************************************************************)
(* Blend-mode library (package internal/blend).                            *)
(***************************************************************************)
\* max: the largest 16-bit channel value
max == 65535
\* mid = max / 2
mid == <<max, 2>>

\* what byte(a) yields for a NaN, which Go leaves to the implementation: the
\* low byte of the integer the conversion instruction of the build produces
\* (0x8000000000000000 or 0 on amd64 and arm64, 0x7fffffffffffffff on riscv64)
NaNBytes == {0, 255}

\* clampToByte
clampToByte(a) ==
    IF a = NaN THEN nanByte
    ELSE IF a = PosInf THEN 255
    ELSE IF a[1] < 0 THEN 0
    ELSE IF RTrunc(a) >= 255 THEN 255    \* a > 255, or byte(a) = 255
    ELSE RTrunc(a)

\* x*y/z, z # 0, for integers x, y, z (the quotient y/z is reduced before the
\* product is formed, which keeps the exact value and the numbers small)
mulDiv(x, y, z) == RMul(R(x), Frac(y, z))

\* the func(d, s float64) float64 literal each per-channel mode hands to blendPerChannel
channelBlend(mode, d, s) ==
    CASE mode = 1 -> mulDiv(s, d, max)                                       \* Multiply
      [] mode = 2 -> RSub(R(s + d), mulDiv(s, d, max))                       \* Screen
      [] mode = 3 ->                                                         \* Overlay
           IF RLt(R(d), mid)
           THEN mulDiv(2 * s, d, max)
           ELSE RSub(R(max), mulDiv(2 * (max - s), max - d, max))
      [] mode = 4 -> R(Min2(d, s))                                           \* Darken
      [] mode = 5 -> R(Max2(d, s))                                           \* Lighten
      [] mode = 6 ->                                                         \* ColorDodge
           IF s = max THEN R(s)
           ELSE RMin(R(max), mulDiv(d, max, max - s))
      [] mode = 7 ->                                                         \* ColorBurn
           IF s = 0 THEN R(s)
           ELSE RMax(R(0), RSub(R(max), mulDiv(max - d, max, s)))
      [] mode = 8 ->                                                         \* HardLight
           IF RLt(mid, R(s))
           THEN RAdd(R(d), RMul(R(max - d), RDiv(RSub(R(s), mid), mid)))
           ELSE RMul(R(d), RDiv(R(s), mid))
      [] mode = 9 ->                                                         \* SoftLight
           RMul(Frac(d, max),
                RAdd(R(d), RMul(Frac(2 * s, max), R(max - d))))
      [] mode = 10 -> R(Abs(s - d))                                          \* Difference
      [] mode = 11 -> RSub(R(s + d), RMul(R(s), RDiv(R(d), mid)))            \* Exclusion
      [] mode = 16 -> IF s + d > max THEN R(max) ELSE R(s + d)               \* Addition
      [] mode = 17 -> IF d - s < 0 THEN R(0) ELSE R(d - s)                   \* Subtract
      [] mode = 18 ->                                                        \* Divide
           IF s = 0 THEN (IF d = 0 THEN NaN ELSE PosInf)
           ELSE RAdd(mulDiv(d, max, s), R(1))

\* blend(d, s)/256 + 0.5
toByteScale(v) == IF IsFinite(v) THEN RAdd(RDiv(v, R(256)), <<1, 2>>) ELSE v

\* blendPerChannel
blendPerChannel(mode, dst, src) ==
    LET d == ColorRGBA(dst)
        s == ColorRGBA(src)
        ch(i) == clampToByte(toByteScale(channelBlend(mode, d[i], s[i])))
    IN  RGBA(ch(1), ch(2), ch(3), clampToByte(toByteScale(R(d[4]))))

\* hslf64 of a colour: [h, s, l] as fractions
rgb2hsl(col) ==
    LET c     == ColorRGBA(col)
        r     == Frac(c[1], max)
        g     == Frac(c[2], max)
        b     == Frac(c[3], max)
        cmax  == RMax(RMax(r, g), b)
        cmin  == RMin(RMin(r, g), b)
        l     == RDiv(RAdd(cmax, cmin), R(2))
        delta == RSub(cmax, cmin)
        s     == IF RLt(<<1, 2>>, l)
                 THEN RDiv(delta, RSub(RSub(R(2), cmax), cmin))
                 ELSE RDiv(delta, RAdd(cmax, cmin))
        h6    == IF cmax = r
                 THEN RAdd(RDiv(RSub(g, b), delta), IF RLt(g, b) THEN R(6) ELSE R(0))
                 ELSE IF cmax = g
                 THEN RAdd(RDiv(RSub(b, r), delta), R(2))
                 ELSE RAdd(RDiv(RSub(r, g), delta), R(4))
    IN  IF cmax # cmin
        THEN [h |-> RDiv(h6, R(6)), s |-> s, l |-> l]
        ELSE [h |-> R(0), s |-> R(0), l |-> l]

hue2rgb(p, q, t0) ==
    LET t == IF RLt(t0, R(0)) THEN RAdd(t0, R(1))
             ELSE IF RLt(R(1), t0) THEN RSub(t0, R(1))
             ELSE t0
    IN  IF RLt(t, <<1, 6>>) THEN RAdd(p, RMul(RMul(RSub(q, p), R(6)), t))
        ELSE IF RLt(t, <<1, 2>>) THEN q
        ELSE IF RLt(t, <<2, 3>>)
             THEN RAdd(p, RMul(RMul(RSub(q, p), RSub(<<2, 3>>, t)), R(6)))
        ELSE p

hsl2rgb(h, s, l) ==
    LET q   == IF RLt(l, <<1, 2>>) THEN RMul(l, RAdd(R(1), s))
               ELSE RSub(RAdd(l, s), RMul(s, l))
        p   == RSub(RMul(R(2), l), q)
        rgb == IF s = R(0) THEN <<l, l, l>>
               ELSE <<hue2rgb(p, q, RAdd(h, <<1, 3>>)),
                      hue2rgb(p, q, h),
                      hue2rgb(p, q, RSub(h, <<1, 3>>))>>
        out(i) == clampToByte(RAdd(RMul(rgb[i], R(255)), <<1, 2>>))
    IN  RGBA(out(1), out(2), out(3), 255)

\* Normal
Normal(dst, src) == src

\* Hue that always recombines, without the test of the source saturation
Hue_noSaturationTest(dst, src) ==
    LET s == rgb2hsl(src)
        d == rgb2hsl(dst)
    IN  hsl2rgb(s.h, d.s, d.l)

\* Hue
Hue(dst, src) ==
    LET s == rgb2hsl(src)
        d == rgb2hsl(dst)
    IN  IF s.s = R(0) THEN dst ELSE hsl2rgb(s.h, d.s, d.l)

\* Saturation
Saturation(dst, src) ==
    LET s == rgb2hsl(src)
        d == rgb2hsl(dst)
    IN  hsl2rgb(d.h, s.s, d.l)

\* Color
Color(dst, src) ==
    LET s == rgb2hsl(src)
        d == rgb2hsl(dst)
    IN  hsl2rgb(s.h, s.s, d.l)

\* Luminosity
Luminosity(dst, src) ==
    LET s == rgb2hsl(src)
        d == rgb2hsl(dst)
    IN  hsl2rgb(d.h, d.s, s.l)

\* the indices of the table Modes
ModeIds == 0..18

\* Modes[mode](dst, src)
Modes(mode, dst, src) ==
    CASE mode = 0 -> Normal(dst, src)
      [] mode = 12 -> Hue(dst, src)
      [] mode = 13 -> Saturation(dst, src)
      [] mode = 14 -> Color(dst, src)
      [] mode = 15 -> Luminosity(dst, src)
      [] OTHER -> blendPerChannel(mode, dst, src)

\* the body of Blend's pixel loop with the test of the source alpha left out
blendPixel_alwaysBlends(mode, dstcol, src0col) == Modes(mode, dstcol, src0col)

\* the body of Blend's pixel loop: the colour dst.Set is handed for one pixel,
\* src0col the pixel of the top layer and dstcol that of the bottom
blendPixel(mode, dstcol, src0col) ==
    IF ColorRGBA(src0col)[4] = 0
    THEN src0col
    ELSE Modes(mode, dstcol, src0col)

\* the pixels the blend library is run on: top-layer pixels as a cel image or the
\* palette yields them, bottom-layer pixels as the RGBA canvas yields them
SrcChannels == {0, 129, 255}
SrcAlphas == {0, 85, 255}
SrcPixels ==
    {NRGBA(r, g, b, a) : r \in SrcChannels, g \in SrcChannels, b \in SrcChannels,
                         a \in SrcAlphas}
    \cup {Transparent, Black, Gray16(32896), Gray16(65535)}
DstPixels ==
    {RGBA(0, 0, 0, 0), RGBA(255, 255, 255, 255), RGBA(0, 0, 0, 255),
     RGBA(129, 0, 255, 255), RGBA(0, 255, 129, 255), RGBA(129, 129, 129, 255),
     RGBA(43, 85, 0, 85), RGBA(0, 43, 129, 200)}

BlendInit ==
    /\ nanByte \in NaNBytes
    /\ FrameIdle
    /\ AtlasIdle
    /\ PipelineIdle
    /\ blendMode \in ModeIds
    /\ blendDst \in DstPixels
    /\ blendSrc \in SrcPixels
    /\ blendOut = NoColor
    /\ modeOut = NoColor

\* Blend on images of one pixel: what it hands to dst.Set for that pixel
CallBlend ==
    /\ blendOut = NoColor
    /\ blendOut' = blendPixel(blendMode, blendDst, blendSrc)
    /\ UNCHANGED <<blendMode, blendDst, blendSrc, modeOut, atlasVars, pipeVars, nanByte, frameVars>>

\* Modes[blendMode](blendDst, blendSrc)
CallMode ==
    /\ modeOut = NoColor
    /\ modeOut' = Modes(blendMode, blendDst, blendSrc)
    /\ UNCHANGED <<blendMode, blendDst, blendSrc, blendOut, atlasVars, pipeVars, nanByte, frameVars>>

BlendNext == CallBlend \/ CallMode

SpecBlend == BlendInit /\ [][BlendNext]_vars

(***************************************************************************)
(* Atlas packer.                                                           *)
(***************************************************************************)
\* the factors taken from the wrong halves of the exponent
factorPowerOfTwo_halvesSwapped(n) ==
    LET x == CeilLog2(n)
    IN  <<Pow2(x \div 2), Pow2(x - (x \div 2))>>

\* factorPowerOfTwo: <<a, b>>
factorPowerOfTwo(n) ==
    LET x == CeilLog2(n)
    IN  <<Pow2(x - (x \div 2)), Pow2(x \div 2)>>

\* the grid after the swap of makeAtlasFrames and DecodeConfig: <<fw, fh>>
swapGrid(n, w, h) ==
    LET ab == factorPowerOfTwo(n)
    IN  IF w > h THEN <<ab[2], ab[1]>> ELSE ab

\* makeAtlasFrames that walks the grid by its row count
makeAtlasFrames_byRows(n, w, h) ==
    LET g  == swapGrid(n, w, h)
        fw == g[1]
        fh == g[2]
    IN  [atlasr  |-> Rect(0, 0, fw * w, fh * h),
         framesr |-> [k \in 1..n |->
                        LET i == k - 1
                            x == i % fh
                            y == i \div fh
                        IN  Rectangle(Pt(x * w, y * h), Pt((x + 1) * w, (y + 1) * h))]]

\* makeAtlasFrames: [atlasr, framesr]; framesr[i + 1] is the rectangle of frame i
makeAtlasFrames(n, w, h) ==
    LET g  == swapGrid(n, w, h)
        fw == g[1]
        fh == g[2]
    IN  [atlasr  |-> Rect(0, 0, fw * w, fh * h),
         framesr |-> [k \in 1..n |->
                        LET i == k - 1
                            x == i % fw
                            y == i \div fw
                        IN  Rectangle(Pt(x * w, y * h), Pt((x + 1) * w, (y + 1) * h))]]

AtlasInit ==
    /\ nanByte = 0
    /\ FrameIdle
    /\ BlendIdle
    /\ PipelineIdle
    /\ nframes \in 1..MaxFrames
    /\ framew \in 0..MaxDim
    /\ frameh \in 0..MaxDim
    /\ grid = <<>>
    /\ atlasr = NoRect
    /\ framesr = <<>>

CallFactorPowerOfTwo ==
    /\ grid = <<>>
    /\ grid' = factorPowerOfTwo(nframes)
    /\ UNCHANGED <<nframes, framew, frameh, atlasr, framesr, blendVars, pipeVars, nanByte, frameVars>>

CallMakeAtlasFrames ==
    /\ framesr = <<>>
    /\ LET res == makeAtlasFrames(nframes, framew, frameh)
       IN  /\ atlasr' = res.atlasr
           /\ framesr' = res.framesr
    /\ UNCHANGED <<nframes, framew, frameh, grid, blendVars, pipeVars, nanByte, frameVars>>

AtlasNext == CallFactorPowerOfTwo \/ CallMakeAtlasFrames

SpecAtlas == AtlasInit /\ [][AtlasNext]_vars

(***************************************************************************)
(* The container: chunk type tags and magic numbers.                       *)
(***************************************************************************)
TypOldPalette04 == 4
TypOldPalette11 == 17
TypLayer == 8196
TypCel == 8197
TypTags == 8216
TypPalette == 8217
TypUserData == 8224
TypSlice == 8226
HeaderMagic == 42464
FrameMagic == 61946
HeaderSize == 128

\* bit k of a flags word: flags & (1 << k) != 0
Bit(flags, k) == (flags \div Pow2(k)) % 2 = 1

(***************************************************************************)
(* Errors.  Panic stands for a run-time panic of the Go program (an index  *)
(* out of range, a nil dereference): no value is returned at all.          *)
(***************************************************************************)
NoErr == "nil"
Panic == "panic"
errInvalidMagic == "invalid magic number"
errPixelRatio == "unsupported pixel ratio"
errColorDepth == "invalid color depth"
errTilemap == "tilemap layers not supported"
errCelType == "unsupported cel type"
errZlibHeader == "zlib: invalid header"
errZlibStream == "unexpected EOF in zlib stream"
errEOF == "EOF"
errUnexpectedEOF == "unexpected EOF"

(***************************************************************************)
(* File, frame, cel, Layer (file.go).  A cel's image is a pointer: 0 for   *)
(* nil, else the index of the image in the heap of allocated rasters.      *)
(***************************************************************************)
\* the zero cel
EmptyCel == [image |-> 0, mask |-> 0, data |-> <<>>]

\* var f File
ZeroFile ==
    [framew |-> 0, frameh |-> 0, flags |-> 0, bpp |-> 0, transparent |-> 0,
     palette |-> <<>>, frames |-> <<>>, Layers |-> <<>>]

\* frame.Read without the test of the magic
frameRead_anyMagic(rec) ==
    [fr |-> [dur |-> rec.dur, chunks |-> rec.chunks, cels |-> <<>>], err |-> NoErr]

\* frame.Read on one frame record of the input: [fr, err]
frameRead(rec) ==
    IF rec.magic # FrameMagic
    THEN [fr |-> [dur |-> 0, chunks |-> <<>>, cels |-> <<>>], err |-> errInvalidMagic]
    ELSE [fr |-> [dur |-> rec.dur, chunks |-> rec.chunks, cels |-> <<>>], err |-> NoErr]

RECURSIVE readFrames(_, _)
\* the loop "for len(raw) > 0" of ReadFrom over the frame records left: [frames, err]
readFrames(recs, acc) ==
    IF recs = <<>> THEN [frames |-> acc, err |-> NoErr]
    ELSE LET r == frameRead(Head(recs))
         IN  IF r.err # NoErr THEN [frames |-> acc, err |-> r.err]
             ELSE readFrames(Tail(recs), Append(acc, r.fr))

\* File.ReadFrom: [f, err], f the File as ReadFrom leaves it
ReadFrom(in) ==
    IF in.headerBytes < HeaderSize
    THEN [f |-> ZeroFile,
          err |-> IF in.headerBytes = 0 THEN errEOF ELSE errUnexpectedEOF]
    ELSE IF in.magic # HeaderMagic THEN [f |-> ZeroFile, err |-> errInvalidMagic]
    ELSE IF in.pixw # in.pixh THEN [f |-> ZeroFile, err |-> errPixelRatio]
    ELSE
      LET f1 == [ZeroFile EXCEPT !.bpp = in.bpp, !.flags = in.flags,
                                 !.framew = in.framew, !.frameh = in.frameh,
                                 !.palette = [k \in 1..in.palsize |-> NoColor],
                                 !.transparent = in.transparent]
          f2 == [f1 EXCEPT !.palette =
                    [k \in 1..in.palsize |->
                        IF k - 1 = in.transparent THEN Transparent ELSE Black]]
          fr == readFrames(in.frames, <<>>)
      IN  IF in.bpp \notin {8, 16, 32} THEN [f |-> f1, err |-> errColorDepth]
          ELSE IF in.transparent >= in.palsize THEN [f |-> f1, err |-> Panic]
          ELSE IF in.bodyShort THEN [f |-> f2, err |-> errUnexpectedEOF]
          ELSE [f |-> [f2 EXCEPT !.frames = fr.frames], err |-> fr.err]

(***************************************************************************)
(* Palette builder (parse.go).                                             *)
(***************************************************************************)
\* parseColor
parseColor(b) == NRGBA(b[1], b[2], b[3], b[4])

\* parseChunk2019: [palette, err]
parseChunk2019(palette, ch) ==
    LET entries == Len(ch.colors)
    IN  IF ch.lo + entries > Len(palette)
        THEN [palette |-> palette, err |-> Panic]
        ELSE [palette |->
                 [k \in 1..Len(palette) |->
                     IF k - 1 >= ch.lo /\ k - 1 < ch.lo + entries
                     THEN parseColor(ch.colors[k - ch.lo])
                     ELSE palette[k]],
              err |-> NoErr]

RECURSIVE oldPalettePackets(_, _, _, _)
\* the packet loop of parseChunk0004 (scale 1) and parseChunk0011 (scale 4):
\* [palette, err]
oldPalettePackets(palette, packets, currentIndex, scale) ==
    IF packets = <<>> THEN [palette |-> palette, err |-> NoErr]
    ELSE
      LET pk    == Head(packets)
          start == currentIndex + pk.skip
          n     == IF pk.n = 0 THEN 256 ELSE pk.n
          count == Max2(0, Min2(n, Len(palette) - start))
          pal2  == [k \in 1..Len(palette) |->
                      IF k - 1 >= start /\ k - 1 < start + count
                      THEN LET c == pk.colors[k - start]
                           IN  NRGBA((c[1] * scale) % 256, (c[2] * scale) % 256,
                                     (c[3] * scale) % 256, 255)
                      ELSE palette[k]]
      IN  IF Len(pk.colors) < count
          THEN [palette |-> palette, err |-> Panic]
          ELSE oldPalettePackets(pal2, Tail(packets), start + count, scale)

\* parseChunk0004
parseChunk0004(palette, ch) == oldPalettePackets(palette, ch.packets, 0, 1)

\* parseChunk0011
parseChunk0011(palette, ch) == oldPalettePackets(palette, ch.packets, 0, 4)

\* the positions of the chunks of type typ among chunks[1..upto]
chunksOfType(chunks, typ, upto) == {k \in 1..upto : chunks[k].typ = typ}

SetMax(S) == CHOOSE v \in S : \A u \in S : u <= v
SetMin(S) == CHOOSE v \in S : \A u \in S : v <= u

\* the last step of initPalette left out
forceTransparent_never(f, pal) == pal

\* the last step of initPalette: "if f.flags&1 != 0 { f.palette[f.transparent] = ... }"
forceTransparent(f, pal) ==
    IF Bit(f.flags, 0) THEN [pal EXCEPT ![f.transparent + 1] = Transparent] ELSE pal

\* initPalette with the legacy chunks of frame 0 applied whenever there are some,
\* and the 0x2019 chunk only when there are none
initPalette_legacyFirst(f) ==
    IF f.frames = <<>> THEN [f |-> f, err |-> Panic]
    ELSE
      LET chunks == f.frames[1].chunks
          new    == chunksOfType(chunks, TypPalette, Len(chunks))
          old04  == chunksOfType(chunks, TypOldPalette04, Len(chunks))
          old11  == chunksOfType(chunks, TypOldPalette11, Len(chunks))
          res    == IF old04 # {} THEN parseChunk0004(f.palette, chunks[SetMax(old04)])
                    ELSE IF old11 # {} THEN parseChunk0011(f.palette, chunks[SetMax(old11)])
                    ELSE IF new # {} THEN parseChunk2019(f.palette, chunks[SetMin(new)])
                    ELSE [palette |-> f.palette, err |-> NoErr]
      IN  IF res.err # NoErr THEN [f |-> f, err |-> res.err]
          ELSE [f |-> [f EXCEPT !.palette = forceTransparent(f, res.palette)],
                err |-> NoErr]

\* file.initPalette: [f, err]
initPalette(f) ==
    IF f.frames = <<>> THEN [f |-> f, err |-> Panic]
    ELSE
      LET chunks == f.frames[1].chunks
          new    == chunksOfType(chunks, TypPalette, Len(chunks))
          \* the chunks the loop looks at: up to the first 0x2019, where it breaks
          seen   == IF new = {} THEN Len(chunks) ELSE SetMin(new)
          old04  == chunksOfType(chunks, TypOldPalette04, seen)
          old11  == chunksOfType(chunks, TypOldPalette11, seen)
          res    == IF new # {} THEN parseChunk2019(f.palette, chunks[SetMin(new)])
                    ELSE IF old04 # {} THEN parseChunk0004(f.palette, chunks[SetMax(old04)])
                    ELSE IF old11 # {} THEN parseChunk0011(f.palette, chunks[SetMax(old11)])
                    ELSE [palette |-> f.palette, err |-> NoErr]
      IN  IF res.err # NoErr THEN [f |-> f, err |-> res.err]
          ELSE [f |-> [f EXCEPT !.palette = forceTransparent(f, res.palette)],
                err |-> NoErr]

(***************************************************************************)
(* Layer table builder (parse.go, file.go).                                *)
(***************************************************************************)
\* parseUserData: the data it returns (the text when bit 0 of the flags is set)
parseUserData(ch) == IF Bit(ch.flags, 0) THEN ch.text ELSE <<>>

\* parseUserData: the colour it returns (nil, here NoColor, unless bit 1 is set)
parseUserDataColor(ch) == IF Bit(ch.flags, 1) THEN parseColor(ch.color) ELSE NoColor

\* Layer.Parse without its test of the layer type
LayerParse_acceptsTilemap(ch) ==
    [l |-> [Flags |-> ch.flags, BlendMode |-> ch.blend, Opacity |-> ch.opacity,
            Data |-> <<>>],
     err |-> NoErr]

\* Layer.Parse: [l, err]
LayerParse(ch) ==
    IF ch.ltype = 2
    THEN [l |-> [Flags |-> 0, BlendMode |-> 0, Opacity |-> 0, Data |-> <<>>],
          err |-> errTilemap]
    ELSE [l |-> [Flags |-> ch.flags, BlendMode |-> ch.blend, Opacity |-> ch.opacity,
                 Data |-> <<>>],
          err |-> NoErr]

\* no chunk attaches user data
followingUserData_never(chunks, k) == <<>>

\* "if i < len(chunks)-1 { if ch2 := chunks[i+1]; ch2.typ == 0x2020 {
\* l.data, _ = parseUserData(ch2.raw) } }": the data of the chunk after chunk k
followingUserData(chunks, k) ==
    IF k < Len(chunks) /\ chunks[k + 1].typ = TypUserData
    THEN parseUserData(chunks[k + 1])
    ELSE <<>>

RECURSIVE layersFrom(_, _, _)
\* the chunk loop of initLayers from chunk k on: [layers, err]
layersFrom(chunks, k, acc) ==
    IF k > Len(chunks) THEN [layers |-> acc, err |-> NoErr]
    ELSE IF chunks[k].typ # TypLayer THEN layersFrom(chunks, k + 1, acc)
    ELSE LET r == LayerParse(chunks[k])
         IN  IF r.err # NoErr THEN [layers |-> acc, err |-> r.err]
             ELSE layersFrom(chunks, k + 1,
                     Append(acc, [r.l EXCEPT !.Data = followingUserData(chunks, k)]))

\* file.initLayers: [f, err]
initLayers(f) ==
    LET r == layersFrom(f.frames[1].chunks, 1, f.Layers)
    IN  IF r.err # NoErr THEN [f |-> [f EXCEPT !.Layers = r.layers], err |-> r.err]
        ELSE [f |-> [f EXCEPT !.Layers = r.layers,
                              !.frames = [i \in 1..Len(f.frames) |->
                                  [f.frames[i] EXCEPT !.cels =
                                      [l \in 1..Len(r.layers) |-> EmptyCel]]]],
              err |-> NoErr]

(***************************************************************************)
(* Cel decoder (parse.go, file.go).                                        *)
(***************************************************************************)
\* makeCelImage8
makeCelImage8(bounds, pix) ==
    [kind |-> "Paletted", Pix |-> pix, Stride |-> Dx(bounds), Rect |-> bounds]

\* makeCelImage16
makeCelImage16(bounds, pix) ==
    [kind |-> "Gray16", Pix |-> pix, Stride |-> Dx(bounds) * 2, Rect |-> bounds]

\* makeCelImage32
makeCelImage32(bounds, pix) ==
    [kind |-> "NRGBA", Pix |-> pix, Stride |-> Dx(bounds) * 4, Rect |-> bounds]

\* f.makeCel, as ReadFrom chose it from f.bpp: the image of the new cel
makeCel(f, bounds, pix) ==
    CASE f.bpp = 8 -> makeCelImage8(bounds, pix)
      [] f.bpp = 16 -> makeCelImage16(bounds, pix)
      [] OTHER -> makeCelImage32(bounds, pix)

\* f.frames[frame].cels[layer] = c (frame and layer counted from 0)
setCel(f, frame, layer, c) ==
    [f EXCEPT !.frames[frame + 1].cels[layer + 1] = c]

\* the cel of a new raster: the raster goes on the heap, the cel points to it
storeImageCel(f, hp, frame, ch, opacity, pix) ==
    LET bounds == Rect(ch.x, ch.y, ch.x + ch.w, ch.y + ch.h)
        hp2    == Append(hp, makeCel(f, bounds, pix))
    IN  [f |-> setCel(f, frame, ch.layer,
                      [image |-> Len(hp2), mask |-> opacity, data |-> <<>>]),
         heap |-> hp2, stored |-> TRUE, err |-> NoErr]

\* case 1 of parseChunk2005 with the raster copied instead of shared
linkedCel_copiesRaster(f, hp, frame, ch) ==
    LET srcCel == f.frames[ch.link + 1].cels[ch.layer + 1]
        hp2    == IF srcCel.image = 0 THEN hp ELSE Append(hp, hp[srcCel.image])
    IN  [f |-> setCel(f, frame, ch.layer,
                      IF srcCel.image = 0 THEN srcCel
                      ELSE [srcCel EXCEPT !.image = Len(hp2)]),
         heap |-> hp2, stored |-> TRUE, err |-> NoErr]

\* case 1 of parseChunk2005 (linked cel), ch.link < len(f.frames)
linkedCel(f, hp, frame, ch) ==
    LET srcCel == f.frames[ch.link + 1].cels[ch.layer + 1]
    IN  [f |-> setCel(f, frame, ch.layer, srcCel),
         heap |-> hp, stored |-> TRUE, err |-> NoErr]

\* the two early returns of parseChunk2005 left out: every layer takes cels
skipsLayer_never(l) == FALSE

\* the two early returns of parseChunk2005: the layer is invisible, or a reference layer
skipsLayer(l) == ~Bit(l.Flags, 0) \/ Bit(l.Flags, 6)

\* the opacity byte of the cel chunk taken as it is
effectiveOpacity_celOnly(celOpacity, layerOpacity) == celOpacity

\* "opacity = byte((int(opacity) * int(f.layers[layer].opacity)) / 255)"
effectiveOpacity(celOpacity, layerOpacity) == ((celOpacity * layerOpacity) \div 255) % 256

\* file.parseChunk2005: [f, heap, stored, err]; stored tells a cel pointer was returned
parseChunk2005(f, hp, frame, ch) ==
    LET none(e) == [f |-> f, heap |-> hp, stored |-> FALSE, err |-> e]
    IN  IF ch.layer >= Len(f.Layers) THEN none(Panic)
        ELSE
          LET l       == f.Layers[ch.layer + 1]
              opacity == effectiveOpacity(ch.opacity, l.Opacity)
          IN  IF skipsLayer(l) THEN none(NoErr)
              ELSE CASE ch.celtype = 0 ->
                          storeImageCel(f, hp, frame, ch, opacity, ch.pix)
                     [] ch.celtype = 1 ->
                          IF ch.link >= Len(f.frames) THEN none(Panic)
                          ELSE linkedCel(f, hp, frame, ch)
                     [] ch.celtype = 2 ->
                          IF ch.z = "badHeader" THEN none(errZlibHeader)
                          ELSE IF ch.z = "badStream" THEN none(errZlibStream)
                          ELSE storeImageCel(f, hp, frame, ch, opacity, ch.pix)
                     [] OTHER -> none(errCelType)

\* the body of the chunk loop of initCels for chunk j of frame i (counted from 1):
\* [f, heap, stored, err]
initCelsChunk(f, hp, i, j) ==
    LET chunks == f.frames[i].chunks
        ch     == chunks[j]
    IN  IF ch.typ # TypCel THEN [f |-> f, heap |-> hp, stored |-> FALSE, err |-> NoErr]
        ELSE
          LET r == parseChunk2005(f, hp, i - 1, ch)
          IN  IF r.err = NoErr /\ r.stored /\ j < Len(chunks) /\ chunks[j + 1].typ = TypUserData
              THEN [r EXCEPT !.f.frames[i].cels[ch.layer + 1].data =
                                 parseUserData(chunks[j + 1])]
              ELSE r

RECURSIVE firstChunkFrom(_, _)
\* the first frame from i on that has a chunk: <<i, 1>>, or <<0, 0>> when none has
firstChunkFrom(f, i) ==
    IF i > Len(f.frames) THEN <<0, 0>>
    ELSE IF f.frames[i].chunks # <<>> THEN <<i, 1>>
    ELSE firstChunkFrom(f, i + 1)

\* the chunk the loops of initCels come to after chunk j of frame i
nextChunk(f, i, j) ==
    IF j < Len(f.frames[i].chunks) THEN <<i, j + 1>> ELSE firstChunkFrom(f, i + 1)

(***************************************************************************)
(* Compositor (File.buildAtlas, with Blend of the blend package and Draw / *)
(* DrawMask of image/draw as it uses them).  A canvas is the pixel array   *)
(* of an *image.RGBA of the frame bounds: w*h RGBA colours, row by row.    *)
(***************************************************************************)
\* image.NewRGBA(framebounds) after draw.Draw(.., transparent, .., draw.Src)
clearCanvas(w, h) == [k \in 1..(w * h) |-> RGBA(0, 0, 0, 0)]

\* Image.PixOffset for the three cel rasters
pixOffset(img, x, y) ==
    (y - img.Rect.Min.Y) * img.Stride
    + (x - img.Rect.Min.X) * (CASE img.kind = "Paletted" -> 1
                                [] img.kind = "Gray16" -> 2
                                [] OTHER -> 4)

\* the bytes of one pixel
bytesPerPixel(img) ==
    CASE img.kind = "Paletted" -> 1 [] img.kind = "Gray16" -> 2 [] OTHER -> 4

\* what reading pixel (x, y) of a cel raster does: under tells that Pix ends before
\* the pixel, index is the palette index read from a paletted raster (else -1)
pixelRead(img, x, y) ==
    LET off == pixOffset(img, x, y)
    IN  IF off + bytesPerPixel(img) > Len(img.Pix) THEN [under |-> TRUE, index |-> -1]
        ELSE IF img.kind = "Paletted" THEN [under |-> FALSE, index |-> img.Pix[off + 1]]
        ELSE [under |-> FALSE, index |-> -1]

\* Image.At(x, y) of a cel raster, (x, y) in its Rect and the read in range
imageAt(img, palette, x, y) ==
    LET off == pixOffset(img, x, y)
    IN  CASE img.kind = "Paletted" -> palette[img.Pix[off + 1] + 1]
          [] img.kind = "Gray16" -> Gray16(img.Pix[off + 1] * 256 + img.Pix[off + 2])
          [] OTHER -> NRGBA(img.Pix[off + 1], img.Pix[off + 2],
                            img.Pix[off + 3], img.Pix[off + 4])

\* color.RGBAModel.Convert, as RGBA.Set applies it
toRGBA(col) ==
    IF col.model = "RGBA" THEN col
    ELSE LET c == ColorRGBA(col)
         IN  RGBA(c[1] \div 256, c[2] \div 256, c[3] \div 256, c[4] \div 256)

\* one pixel of drawRGBA with op Over and the uniform mask color.Alpha{opacity}:
\* with m = 0xffff = 0x101 * 0xff and ma = opacity * 0x101 the code computes
\*   a := (m - sa*ma/m) * 0x101;  d = uint8((d*a + s*ma) / m >> 8)
\* and the factor 0x101 cancels in both quotients
drawOver(dcol, scol, opacity) ==
    LET s == ColorRGBA(scol)
        a == max - ((s[4] * opacity) \div 255)
        ch(i) == (((dcol.c[i] * a + s[i] * opacity) \div 255) \div 256) % 256
    IN  RGBA(ch(1), ch(2), ch(3), ch(4))

\* the pixels of a cel raster that lie on the canvas: sr clipped to the frame bounds
celRegion(img, w, h) ==
    {xy \in (0..(w - 1)) \X (0..(h - 1)) :
        /\ img.Rect.Min.X <= xy[1] /\ xy[1] < img.Rect.Max.X
        /\ img.Rect.Min.Y <= xy[2] /\ xy[2] < img.Rect.Max.Y}

\* a variant of usesBlend that sends no cel through blend.Blend
usesBlend_never(l) == FALSE

\* whether the layer's cels go through blend.Blend first
usesBlend(l) == l.BlendMode > 0 /\ l.BlendMode < 19

\* the body of the layer loop of buildAtlas for one present cel: the canvas after it
compositeCel(canvas, f, hp, l, c) ==
    LET img == hp[c.image]
        w   == f.framew
        reg == celRegion(img, w, f.frameh)
        src(k, x, y) ==
            IF usesBlend(l)
            THEN toRGBA(blendPixel(l.BlendMode, canvas[k], imageAt(img, f.palette, x, y)))
            ELSE imageAt(img, f.palette, x, y)
    IN  [k \in 1..Len(canvas) |->
            LET x == (k - 1) % w
                y == (k - 1) \div w
            IN  IF <<x, y>> \in reg
                THEN drawOver(canvas[k], src(k, x, y), c.mask)
                ELSE canvas[k]]

RECURSIVE compositeFrom(_, _, _, _, _)
\* the layer loop of buildAtlas for one frame, from layer l on
compositeFrom(canvas, f, hp, cels, l) ==
    IF l > Len(cels) THEN canvas
    ELSE IF cels[l].image = 0 THEN compositeFrom(canvas, f, hp, cels, l + 1)
    ELSE compositeFrom(compositeCel(canvas, f, hp, f.Layers[l], cels[l]),
                       f, hp, cels, l + 1)

\* a variant of resetCanvas that leaves dst as the frame before left it
resetCanvas_keeps(dst, w, h) == dst

\* "draw.Draw(dst, framebounds, transparent, image.Point{}, draw.Src)", the first
\* statement of the frame loop, on the canvas dst that all frames share
resetCanvas(dst, w, h) == clearCanvas(w, h)

RECURSIVE compositeFrame(_, _, _)
\* dst after the pass of the frame loop for frame i, the canvas handed to the atlas
\* for framesr[i]; before the loop (i = 0) dst is image.NewRGBA(framebounds)
compositeFrame(f, hp, i) ==
    IF i = 0 THEN clearCanvas(f.framew, f.frameh)
    ELSE compositeFrom(resetCanvas(compositeFrame(f, hp, i - 1), f.framew, f.frameh),
                       f, hp, f.frames[i].cels, 1)

\* the reads of cel pixels in the order buildAtlas makes them (frame, layer, row,
\* column): a sequence of pixelRead results
RECURSIVE readsOfRows(_, _, _, _, _)
readsOfRows(img, w, h, x, y) ==
    IF y >= h THEN <<>>
    ELSE IF x >= w THEN readsOfRows(img, w, h, 0, y + 1)
    ELSE (IF <<x, y>> \in celRegion(img, w, h) THEN <<pixelRead(img, x, y)>> ELSE <<>>)
         \o readsOfRows(img, w, h, x + 1, y)

RECURSIVE readsOfCels(_, _, _, _)
readsOfCels(f, hp, cels, l) ==
    IF l > Len(cels) THEN <<>>
    ELSE IF cels[l].image # 0 /\ l > Len(f.Layers)
    THEN <<[under |-> TRUE, index |-> -1]>>   \* f.Layers[layer]: index out of range
    ELSE (IF cels[l].image = 0 THEN <<>>
          ELSE readsOfRows(hp[cels[l].image], f.framew, f.frameh, 0, 0))
         \o readsOfCels(f, hp, cels, l + 1)

RECURSIVE readsOfFrames(_, _, _)
readsOfFrames(f, hp, i) ==
    IF i > Len(f.frames) THEN <<>>
    ELSE readsOfCels(f, hp, f.frames[i].cels, 1) \o readsOfFrames(f, hp, i + 1)

\* a read that panics: past the end of Pix, or a palette index outside the table
badRead(f, rd) == rd.under \/ rd.index >= Len(f.palette)

\* the first read that panics, 0 when none does
firstBadRead(f, reads) ==
    LET bad == {k \in 1..Len(reads) : badRead(f, reads[k])}
    IN  IF bad = {} THEN 0 ELSE SetMin(bad)

\* File.buildAtlas: [atlas, framesr, lookups, err].  The atlas is its rectangle,
\* its colour model and, per frame, the canvas drawn into the frame's rectangle;
\* lookups are the palette indices the compositor looked up.
buildAtlas(f, hp) ==
    LET mk     == makeAtlasFrames(Len(f.frames), f.framew, f.frameh)
        model  == CASE f.bpp = 8 -> [kind |-> "Paletted", palette |-> f.palette]
                    [] f.bpp = 16 -> [kind |-> "Gray16", palette |-> <<>>]
                    [] OTHER -> [kind |-> "RGBA", palette |-> <<>>]
        reads  == readsOfFrames(f, hp, 1)
        bad    == firstBadRead(f, reads)
        done   == IF bad = 0 THEN Len(reads) ELSE bad
        looked == {reads[k].index : k \in {j \in 1..done : reads[j].index >= 0}}
    IN  IF bad # 0
        THEN [atlas |-> [Rect |-> mk.atlasr, model |-> model, frames |-> <<>>],
              framesr |-> mk.framesr, lookups |-> looked, err |-> Panic]
        ELSE [atlas |-> [Rect |-> mk.atlasr, model |-> model,
                         frames |-> [i \in 1..Len(f.frames) |-> compositeFrame(f, hp, i)]],
              framesr |-> mk.framesr, lookups |-> looked, err |-> NoErr]

\* "fr.cels = append(fr.cels[:index], fr.cels[index+1:]...)" where fr is the loop's
\* copy of a frame: the cels after position index move down one place in the array
\* the frame's own cels share, whose length stays what it was
removeCel(cels, index) ==
    [k \in 1..Len(cels) |->
        IF k < index THEN cels[k]
        ELSE IF k < Len(cels) THEN cels[k + 1]
        ELSE cels[k]]

RECURSIVE filterFrom(_, _, _, _, _)
\* the layer loop of FilterLayers from layer l on: [remaining, frames], where
\* Len(remaining) is the loop's index
filterFrom(layers, keep, l, remaining, frames) ==
    IF l > Len(layers) THEN [remaining |-> remaining, frames |-> frames]
    ELSE IF layers[l] \in keep
    THEN filterFrom(layers, keep, l + 1, Append(remaining, layers[l]), frames)
    ELSE filterFrom(layers, keep, l + 1, remaining,
                    [i \in 1..Len(frames) |->
                        [frames[i] EXCEPT !.cels = removeCel(@, Len(remaining) + 1)]])

\* File.FilterLayers, keep being the set of the layers its argument returns true for
FilterLayers(f, keep) ==
    LET r == filterFrom(f.Layers, keep, 1, <<>>, f.frames)
    IN  [f EXCEPT !.Layers = r.remaining, !.frames = r.frames]

\* File.buildFrames: the Frames of the sprite
buildFrames(f, rects) ==
    [i \in 1..Len(f.frames) |->
        [Duration |-> f.frames[i].dur,
         Bounds   |-> rects[i],
         Data     |-> LET cels == f.frames[i].cels
                          has  == {l \in 1..Len(cels) : Len(cels[l].data) > 0}
                          RECURSIVE pick(_)
                          pick(l) == IF l > Len(cels) THEN <<>>
                                     ELSE (IF l \in has THEN <<cels[l].data>> ELSE <<>>)
                                          \o pick(l + 1)
                      IN  pick(1)]]

RECURSIVE layerDataFrom(_, _)
\* File.buildLayerData: the user data of the visible layers that have some
layerDataFrom(layers, l) ==
    IF l > Len(layers) THEN <<>>
    ELSE (IF Bit(layers[l].Flags, 0) /\ Len(layers[l].Data) > 0
          THEN <<layers[l].Data>> ELSE <<>>)
         \o layerDataFrom(layers, l + 1)

\* the user data of every layer that has some, visible or not
buildLayerData_all(f) ==
    LET has == {l \in 1..Len(f.Layers) : Len(f.Layers[l].Data) > 0}
    IN  [n \in 1..Cardinality(has) |->
            f.Layers[CHOOSE l \in has : Cardinality({k \in has : k < l}) = n - 1].Data]

\* File.buildLayerData
buildLayerData(f) == layerDataFrom(f.Layers, 1)

\* the tags of a tags chunk read until its payload ends, whatever its count says
tagsOf_all(ch) == ch.tags

\* the loop "for i := range tags" of buildTags: the first ntags tags of the chunk
tagsOf(ch) == SubSeq(ch.tags, 1, ch.ntags)

\* file.buildTags: [tags, err]; parseTag panics when the payload holds fewer tags
\* than the count says
buildTags(f) ==
    LET chunks == f.frames[1].chunks
        at     == chunksOfType(chunks, TypTags, Len(chunks))
    IN  IF at = {} THEN [tags |-> <<>>, err |-> NoErr]
        ELSE IF Len(chunks[SetMin(at)].tags) < chunks[SetMin(at)].ntags
        THEN [tags |-> <<>>, err |-> Panic]
        ELSE [tags |-> tagsOf(chunks[SetMin(at)]), err |-> NoErr]

\* the slice of one 0x2022 chunk: its name, the keys the loop
\* "for i := 0; len(raw) > 0 && i < nKeysForSlice" parses, and the user data and
\* colour of the chunk after it when that is a 0x2020 chunk
sliceOf(chunks, k) ==
    LET ch == chunks[k]
        ud == k < Len(chunks) /\ chunks[k + 1].typ = TypUserData
    IN  [Name  |-> ch.name,
         Keys  |-> SubSeq(ch.keys, 1, Min2(ch.nkeys, Len(ch.keys))),
         Data  |-> IF ud THEN parseUserData(chunks[k + 1]) ELSE <<>>,
         Color |-> IF ud THEN parseUserDataColor(chunks[k + 1]) ELSE NoColor]

RECURSIVE slicesFrom(_, _)
\* the chunk loop of buildSlices from chunk k on
slicesFrom(chunks, k) ==
    IF k > Len(chunks) THEN <<>>
    ELSE (IF chunks[k].typ = TypSlice THEN <<sliceOf(chunks, k)>> ELSE <<>>)
         \o slicesFrom(chunks, k + 1)

\* file.buildSlices
buildSlices(f) == slicesFrom(f.frames[1].chunks, 1)

\* no sprite
NoSprite == [Image |-> [Rect |-> NoRect, model |-> [kind |-> "none", palette |-> <<>>],
                        frames |-> <<>>],
             Frames |-> <<>>, LayerData |-> <<>>, Tags |-> <<>>, Slices |-> <<>>]

\* the build steps after buildAtlas returned a: [spr, lookups, err]
newSprite(f, a) ==
    IF a.err # NoErr THEN [spr |-> NoSprite, lookups |-> a.lookups, err |-> a.err]
    ELSE IF buildTags(f).err # NoErr
    THEN [spr |-> NoSprite, lookups |-> a.lookups, err |-> buildTags(f).err]
    ELSE [spr |-> [Image |-> a.atlas,
                   Frames |-> buildFrames(f, a.framesr),
                   LayerData |-> buildLayerData(f),
                   Tags |-> buildTags(f).tags,
                   Slices |-> buildSlices(f)],
          lookups |-> a.lookups, err |-> NoErr]

\* the build steps of Read after NewFile: [spr, lookups, err]
New(f, hp) == newSprite(f, buildAtlas(f, hp))

\* image.Config{}
NoConfig == [ColorModel |-> [kind |-> "none", palette |-> <<>>], Width |-> 0, Height |-> 0]

\* the colour model DecodeConfig reports for f, its palette built as p
configModel(f, p) ==
    CASE f.bpp = 8 -> [kind |-> "Paletted", palette |-> p.f.palette]
      [] f.bpp = 16 -> [kind |-> "Gray16", palette |-> <<>>]
      [] OTHER -> [kind |-> "RGBA", palette |-> <<>>]

\* "if f.framew > f.frameh { fw, fh = fh, fw }" left out
configGrid_noSwap(f) == factorPowerOfTwo(Len(f.frames))

\* fw, fh of DecodeConfig: factorPowerOfTwo(len(f.frames)), swapped when
\* f.framew > f.frameh
configGrid(f) ==
    LET g == factorPowerOfTwo(Len(f.frames))
    IN  IF f.framew > f.frameh THEN <<g[2], g[1]>> ELSE g

\* DecodeConfig after ReadFrom returned r: [cfg, err]
configOf(r) ==
    IF r.err # NoErr THEN [cfg |-> NoConfig, err |-> r.err]
    ELSE IF r.f.bpp = 8 /\ initPalette(r.f).err # NoErr
    THEN [cfg |-> NoConfig, err |-> initPalette(r.f).err]
    ELSE [cfg |-> [ColorModel |-> configModel(r.f, initPalette(r.f)),
                   Width |-> r.f.framew * configGrid(r.f)[1],
                   Height |-> r.f.frameh * configGrid(r.f)[2]],
          err |-> NoErr]

\* DecodeConfig: [cfg, err]
DecodeConfig(in) == configOf(ReadFrom(in))

(***************************************************************************)
(* Inputs.  A reader's bytes are given as the records the code parses them *)
(* into: the header fields ReadFrom reads, the frame records frame.Read    *)
(* reads, and per chunk its type and the fields the chunk's parser reads.  *)
(***************************************************************************)
\* a chunk of type typ with every payload field zero
Chunk(typ) ==
    [typ |-> typ, lo |-> 0, colors |-> <<>>, packets |-> <<>>, flags |-> 0,
     text |-> <<>>, ltype |-> 0, blend |-> 0, opacity |-> 0, layer |-> 0,
     x |-> 0, y |-> 0, celtype |-> 0, w |-> 0, h |-> 0, pix |-> <<>>,
     link |-> 0, z |-> "ok", color |-> <<0, 0, 0, 0>>, ntags |-> 0, tags |-> <<>>,
     nkeys |-> 0, name |-> "", keys |-> <<>>]

\* chunk 0x2019: entries colors from index lo on
PaletteChunk(lo, colors) == [Chunk(TypPalette) EXCEPT !.lo = lo, !.colors = colors]

\* chunk 0x0004 or 0x0011: packets of [skip, n, colors]
OldPaletteChunk(typ, packets) == [Chunk(typ) EXCEPT !.packets = packets]

\* chunk 0x2004
LayerChunk(flags, ltype, blend, opacity) ==
    [Chunk(TypLayer) EXCEPT !.flags = flags, !.ltype = ltype, !.blend = blend,
                            !.opacity = opacity]

\* chunk 0x2020
UserDataChunk(flags, text) == [Chunk(TypUserData) EXCEPT !.flags = flags, !.text = text]

\* chunk 0x2005 with a w x h raster pix at (x, y)
CelChunk(layer, x, y, opacity, celtype, w, h, pix) ==
    [Chunk(TypCel) EXCEPT !.layer = layer, !.x = x, !.y = y, !.opacity = opacity,
                          !.celtype = celtype, !.w = w, !.h = h, !.pix = pix]

\* chunk 0x2005 of type 1, linked to frame link
LinkedCelChunk(layer, link) ==
    [Chunk(TypCel) EXCEPT !.layer = layer, !.celtype = 1, !.opacity = 255, !.link = link]

\* chunk 0x2018: the count ntags and the tags of the payload
TagsChunk(ntags, tags) == [Chunk(TypTags) EXCEPT !.ntags = ntags, !.tags = tags]

\* chunk 0x2022: the key count nkeys, the name and the keys of the payload
SliceChunk(nkeys, name, keys) ==
    [Chunk(TypSlice) EXCEPT !.nkeys = nkeys, !.name = name, !.keys = keys]

\* a frame record with a good magic
Frame(chunks) == [magic |-> FrameMagic, dur |-> 100, chunks |-> chunks]

\* a frame record of duration dur (in milliseconds, the unit of frame.dur here)
FrameOf(dur, chunks) == [magic |-> FrameMagic, dur |-> dur, chunks |-> chunks]

\* a whole file with a good header
FileOf(bpp, flags, fw, fh, palsize, transparent, frames) ==
    [headerBytes |-> HeaderSize, magic |-> HeaderMagic, pixw |-> 1, pixh |-> 1,
     bpp |-> bpp, flags |-> flags, framew |-> fw, frameh |-> fh,
     palsize |-> palsize, transparent |-> transparent, bodyShort |-> FALSE,
     frames |-> frames]

\* the bytes of one pixel of value v at the colour depth bpp
PixelBytes(bpp, v) ==
    CASE bpp = 8 -> <<v>>
      [] bpp = 16 -> <<v, v>>
      [] OTHER -> <<v, 0, v, 255>>

\* the most frames an input holds
MaxInputFrames == 2

\* colour depths of the header
Depths == {8, 16, 32}

\* some user data
SomeText == <<7>>

\* one visible layer and a 1 x 1 raw cel of pixel value 1 on it, with user data
PlainChunks(bpp) ==
    <<LayerChunk(1, 0, 0, 255),
      CelChunk(0, 0, 0, 255, 0, 1, 1, PixelBytes(bpp, 1)),
      UserDataChunk(1, SomeText)>>

\* inputs about the header and the frame records: short and wrong headers, wrong
\* depths, a transparent index outside the palette, a short body, a wrong frame magic
HeaderInputs ==
    {[FileOf(bpp, 1, 2, 1, 2, t, <<[Frame(PlainChunks(bpp)) EXCEPT !.magic = fm]>>)
         EXCEPT !.headerBytes = hb, !.magic = mg, !.pixh = ph, !.bodyShort = bs] :
        bpp \in Depths \cup {24}, t \in {0, 2}, fm \in {FrameMagic, 0},
        hb \in {0, 64, HeaderSize}, mg \in {HeaderMagic, 0}, ph \in {1, 2},
        bs \in BOOLEAN}

\* opaque colours a palette chunk writes
Red == <<255, 0, 0, 255>>
Teal == <<0, 129, 129, 255>>
Clear == <<129, 0, 0, 0>>

\* the palette chunks of frame 0, in the order they lie in the file
PaletteChunkSeqs ==
    LET new  == PaletteChunk(0, <<Red, Teal, Red>>)
        new1 == PaletteChunk(1, <<Clear, Teal>>)
        long == PaletteChunk(2, <<Red, Teal>>)
        o04  == OldPaletteChunk(TypOldPalette04,
                    <<[skip |-> 0, n |-> 0, colors |-> <<Teal, Red, Teal>>]>>)
        o04s == OldPaletteChunk(TypOldPalette04,
                    <<[skip |-> 1, n |-> 1, colors |-> <<Red>>],
                      [skip |-> 0, n |-> 1, colors |-> <<Teal>>]>>)
        o11  == OldPaletteChunk(TypOldPalette11,
                    <<[skip |-> 0, n |-> 3, colors |-> <<<<63, 16, 0, 0>>, Red, Teal>>]>>)
    IN  {<<>>, <<new>>, <<new1>>, <<long>>, <<o04>>, <<o04s>>, <<o11>>,
         <<o04, new>>, <<new, new1>>, <<o11, o04>>, <<o04, o11>>, <<o04s, o04>>,
         <<o04, new1>>, <<new1, o04>>, <<new1, o11>>}

\* inputs about the palette: 8-bit files with a palette of three entries
PaletteInputs ==
    {FileOf(8, flags, 1, 1, 3, t,
            <<Frame(pcs \o <<LayerChunk(1, 0, 0, 255),
                             CelChunk(0, 0, 0, 255, 0, 1, 1, <<v>>)>>)>>) :
        flags \in {0, 1}, t \in {0, 2}, pcs \in PaletteChunkSeqs, v \in {0, 2}}

\* flags of a layer: visible, invisible, visible reference layer, invisible reference layer
LayerFlags == {1, 0, 65, 64}

\* the cel chunk of frame 0 on layer 0: raw (in and out of the palette, on and off
\* the canvas, short of pixels), linked (to itself, to the next frame), compressed
\* (good and bad streams), of an unknown type
FirstCels(bpp) ==
    {CelChunk(0, x, 0, 255, 0, 1, 1, PixelBytes(bpp, v)) : x \in {0, 1}, v \in {1, 5}}
    \cup {CelChunk(0, 0, 0, 255, 0, 1, 1, <<>>)}
    \cup {LinkedCelChunk(0, k) : k \in {0, 1}}
    \cup {[CelChunk(0, 0, 0, 128, 2, 1, 1, PixelBytes(bpp, 1)) EXCEPT !.z = z] :
            z \in {"ok", "badHeader", "badStream"}}
    \cup {CelChunk(0, 0, 0, 255, 3, 1, 1, PixelBytes(bpp, 1))}

\* the chunks of a later frame: none, a cel linked to frame 0, a raw cel
LaterChunks(bpp) ==
    {<<>>,
     <<LinkedCelChunk(0, 0), UserDataChunk(1, <<9>>)>>,
     <<LinkedCelChunk(0, 0)>>,
     <<CelChunk(0, 0, 0, 255, 0, 1, 1, PixelBytes(bpp, 1))>>}

\* inputs about cels: one layer, a cel chunk with user data in frame 0
CelInputs ==
    UNION {
        {FileOf(bpp, 1, wh[1], wh[2], 2, 0,
                <<Frame(<<LayerChunk(lf, 0, 0, 255), c, UserDataChunk(1, SomeText)>>)>>
                \o [k \in 1..(n - 1) |-> Frame(later)]) :
            wh \in {<<2, 1>>, <<1, 2>>}, lf \in LayerFlags,
            c \in FirstCels(bpp), n \in 1..MaxInputFrames, later \in LaterChunks(bpp)} :
        bpp \in Depths}

\* inputs about layers: tilemap layers, layers with user data, blended layers, a cel
\* chunk of a layer that is not there
LayerInputs ==
    {FileOf(32, 1, 1, 1, 1, 0,
            <<Frame(ls \o <<CelChunk(0, 0, 0, 255, 0, 1, 1, <<129, 0, 255, 255>>),
                            CelChunk(1, 0, 0, op, 0, 1, 1, <<255, 129, 0, a>>)>>)>>) :
        ls \in {<<LayerChunk(1, 0, 0, 255), LayerChunk(1, 0, b, lo)>> :
                    b \in {0, 1, 19}, lo \in {255, 128}}
               \cup {<<LayerChunk(1, 2, 0, 255)>>,
                     <<LayerChunk(1, 0, 0, 255), LayerChunk(1, 2, 0, 255)>>,
                     <<LayerChunk(1, 0, 0, 255)>>,
                     <<LayerChunk(1, 0, 0, 255), UserDataChunk(1, SomeText),
                       LayerChunk(0, 0, 0, 255), UserDataChunk(1, <<8>>)>>,
                     <<LayerChunk(1, 0, 0, 255), UserDataChunk(1, SomeText),
                       LayerChunk(65, 0, 0, 255), UserDataChunk(1, <<8>>)>>,
                     <<LayerChunk(64, 0, 0, 255), UserDataChunk(1, SomeText),
                       LayerChunk(1, 0, 0, 255)>>},
        op \in {255, 0}, a \in {0, 85, 255}}

\* inputs about opacity: an 8-bit file of one layer of opacity lo with a raw or
\* compressed cel of opacity co in frame 0, and a cel linked to it, with an opacity
\* byte of its own, in the frames after
OpacityInputs ==
    {FileOf(8, 1, 1, 1, 2, 0,
            <<Frame(<<LayerChunk(1, 0, 0, lo), CelChunk(0, 0, 0, co, ct, 1, 1, <<1>>)>>)>>
            \o [k \in 1..(n - 1) |->
                    Frame(<<[LinkedCelChunk(0, 0) EXCEPT !.opacity = 77]>>)]) :
        lo \in {0, 128, 255}, co \in {0, 128, 255}, ct \in {0, 2},
        n \in 1..MaxInputFrames}

\* inputs about compositing: a 32-bit file of two layers, the upper one of blend
\* mode b, whose frame 0 has a cel on both layers and whose later frames have a
\* cel on the lower layer, on the upper layer, on both or on none
CompositeInputs ==
    {FileOf(32, 1, 1, 1, 1, 0,
            <<Frame(<<LayerChunk(1, 0, 0, 255), LayerChunk(1, 0, b, 255),
                      CelChunk(0, 0, 0, 255, 0, 1, 1, <<129, 0, 255, 255>>),
                      CelChunk(1, 0, 0, 128, 0, 1, 1, <<255, 129, 0, 255>>)>>)>>
            \o [k \in 1..(n - 1) |-> Frame(later)]) :
        b \in {0, 1, 19}, n \in 2..MaxInputFrames,
        later \in {<<>>,
                   <<CelChunk(0, 0, 0, 255, 0, 1, 1, <<0, 129, 255, 85>>)>>,
                   <<CelChunk(1, 0, 0, 128, 0, 1, 1, <<255, 129, 0, 255>>)>>,
                   <<CelChunk(1, 0, 0, 255, 0, 1, 1, <<0, 255, 129, 255>>),
                     CelChunk(0, 0, 0, 255, 0, 1, 1, <<129, 0, 255, 255>>)>>}}

\* two tags
Walk == [Name |-> "walk", Lo |-> 0, Hi |-> 1]
Idle == [Name |-> "idle", Lo |-> 1, Hi |-> 1]

\* the tags chunks of an input: none, one whose count is its number of tags, an
\* empty one, one with more tags than its count, one with fewer, two tags chunks
TagsParts ==
    {<<>>, <<TagsChunk(2, <<Walk, Idle>>)>>, <<TagsChunk(0, <<>>)>>,
     <<TagsChunk(1, <<Walk, Idle>>)>>, <<TagsChunk(2, <<Walk>>)>>,
     <<TagsChunk(1, <<Idle>>), TagsChunk(2, <<Walk, Idle>>)>>}

\* inputs about frames and tags: frames of different durations, the tags chunks in
\* frame 0 or in the last frame
TagInputs ==
    {FileOf(32, 1, 2, 1, 1, 0,
            [k \in 1..n |->
                FrameOf(50 * k + 50,
                        (IF k = 1 THEN PlainChunks(32) ELSE <<>>)
                        \o (IF k = at THEN tp ELSE <<>>))]) :
        n \in 1..MaxInputFrames, at \in 1..MaxInputFrames, tp \in TagsParts}

\* user-data chunks: text only, colour only, both
UserDatas ==
    {UserDataChunk(1, <<30>>),
     [UserDataChunk(2, <<>>) EXCEPT !.color = <<255, 0, 0, 255>>],
     [UserDataChunk(3, <<31>>) EXCEPT !.color = <<0, 255, 0, 128>>]}

\* a slice key
Key(fr) == [FrameIndex |-> fr, Bounds |-> Rect(0, 0, 1, 1)]

\* inputs about slices and user data: a layer and its cel, then a tags chunk, a slice
\* chunk and a second slice chunk, each of them followed by a user-data chunk or not
SliceInputs ==
    {FileOf(32, 1, 2, 1, 1, 0,
            <<Frame(<<LayerChunk(1, 0, 0, 255),
                      CelChunk(0, 0, 0, 255, 0, 1, 1, <<129, 0, 255, 255>>),
                      TagsChunk(1, <<Walk>>)>>
                    \o SubSeq(<<ud>>, 1, a)
                    \o <<SliceChunk(2, "hit", <<Key(0), Key(1)>>)>>
                    \o SubSeq(<<ud>>, 1, b)
                    \o <<SliceChunk(1, "box", <<Key(0)>>)>>
                    \o SubSeq(<<UserDataChunk(1, <<32>>)>>, 1, c))>>) :
        ud \in UserDatas, a \in {0, 1}, b \in {0, 1}, c \in {0, 1}}

\* the chunks of layer l (from 0) of the inputs about FilterLayers: the layer with
\* its user data
FilterLayerChunks(l) == <<LayerChunk(1, 0, 0, 255), UserDataChunk(1, <<10 + l>>)>>

\* the cel of layer l (from 0) with its user data
FilterCelChunks(l) ==
    <<CelChunk(l, l % 2, 0, 255, 0, 1, 1, <<40 * l, 0, 255, 255>>),
      UserDataChunk(1, <<20 + l>>)>>

RECURSIVE ConcatTo(_, _)
\* Op(0) \o ... \o Op(n - 1)
ConcatTo(Op(_), n) == IF n = 0 THEN <<>> ELSE ConcatTo(Op, n - 1) \o Op(n - 1)

\* the most layers of an input about FilterLayers
MaxLayers == 3

\* inputs about FilterLayers: visible layers with user data, a cel with user data on
\* each of them in every frame
FilterInputs ==
    {FileOf(32, 1, 2, 1, 1, 0,
            [k \in 1..n |->
                Frame((IF k = 1 THEN ConcatTo(FilterLayerChunks, nl) ELSE <<>>)
                      \o ConcatTo(FilterCelChunks, nl))]) :
        n \in 1..MaxInputFrames, nl \in 2..MaxLayers}

Inputs ==
    HeaderInputs \cup PaletteInputs \cup CelInputs \cup LayerInputs \cup TagInputs
    \cup SliceInputs \cup FilterInputs \cup OpacityInputs \cup CompositeInputs

(***************************************************************************)
(* The decode pipeline: Read, which runs NewFile stage by stage and then   *)
(* the build, and DecodeConfig, both applied to the same input.            *)
(***************************************************************************)
Init ==
    /\ nanByte \in NaNBytes
    /\ FrameIdle
    /\ AtlasIdle
    /\ BlendIdle
    /\ input \in Inputs
    /\ pc = "ReadFrom"
    /\ file = ZeroFile
    /\ heap = <<>>
    /\ cur = <<0, 0>>
    /\ ran = <<>>
    /\ nfRet = NotReturned
    /\ readRet = NotReturned
    /\ config = NotReturned
    /\ lookups = {}
    /\ flt = NoCalls
    /\ newRet = NotReturned

\* "if err != nil { return nil, err }" never taken
returnsOn_never(err) == FALSE

\* "if err != nil { return nil, err }" of NewFile after a stage
returnsOn(err) == err # NoErr

\* what a stage of NewFile that reported err leaves of pc, ran and nfRet:
\* a panic unwinds, an error returns (nil, err), else next is the stage to come
stageDone(stage, err, next) ==
    /\ ran' = Append(ran, [stage |-> stage, err |-> err])
    /\ IF err = Panic THEN pc' = "panic" /\ UNCHANGED nfRet
       ELSE IF returnsOn(err)
       THEN pc' = "Read" /\ nfRet' = [returned |-> TRUE, file |-> FALSE, err |-> err]
       ELSE pc' = next /\ UNCHANGED nfRet

\* f.ReadFrom(r)
DoReadFrom ==
    /\ pc = "ReadFrom"
    /\ LET r == ReadFrom(input)
       IN  /\ file' = r.f
           /\ stageDone("ReadFrom", r.err, "initPalette")
    /\ UNCHANGED <<input, heap, cur, readRet, config, lookups,
                   atlasVars, blendVars, nanByte, flt, newRet, frameVars>>

\* f.initPalette()
DoInitPalette ==
    /\ pc = "initPalette"
    /\ LET r == initPalette(file)
       IN  /\ file' = r.f
           /\ stageDone("initPalette", IF r.err = Panic THEN Panic ELSE NoErr,
                        "initLayers")
    /\ UNCHANGED <<input, heap, cur, readRet, config, lookups,
                   atlasVars, blendVars, nanByte, flt, newRet, frameVars>>

\* f.initLayers()
DoInitLayers ==
    /\ pc = "initLayers"
    /\ LET r == IF file.frames = <<>> THEN [f |-> file, err |-> Panic]
                ELSE initLayers(file)
       IN  /\ file' = r.f
           /\ cur' = firstChunkFrom(r.f, 1)
           /\ stageDone("initLayers", r.err, "initCels")
    /\ UNCHANGED <<input, heap, readRet, config, lookups,
                   atlasVars, blendVars, nanByte, flt, newRet, frameVars>>

\* one turn of the chunk loop of f.initCels()
DoInitCelsChunk ==
    /\ pc = "initCels"
    /\ cur # <<0, 0>>
    /\ LET r == initCelsChunk(file, heap, cur[1], cur[2])
       IN  /\ file' = r.f
           /\ heap' = r.heap
           /\ cur' = nextChunk(file, cur[1], cur[2])
           /\ IF r.err = NoErr THEN UNCHANGED <<pc, ran, nfRet>>
              ELSE stageDone("initCels", r.err, "initCels")
    /\ UNCHANGED <<input, readRet, config, lookups, atlasVars, blendVars, nanByte, flt, newRet, frameVars>>

\* the end of the loops of f.initCels() and "return &f, nil"
DoInitCelsEnd ==
    /\ pc = "initCels"
    /\ cur = <<0, 0>>
    /\ ran' = Append(ran, [stage |-> "initCels", err |-> NoErr])
    /\ nfRet' = [returned |-> TRUE, file |-> TRUE, err |-> NoErr]
    /\ pc' = "Read"
    /\ UNCHANGED <<input, file, heap, cur, readRet, config, lookups,
                   atlasVars, blendVars, nanByte, flt, newRet, frameVars>>

\* Read after NewFile failed: "return nil, err"
ReadReturnsErr ==
    /\ pc = "Read"
    /\ nfRet.err # NoErr
    /\ readRet' = [returned |-> TRUE, sprite |-> FALSE, spr |-> NoSprite, err |-> nfRet.err]
    /\ pc' = "done"
    /\ UNCHANGED <<input, file, heap, cur, ran, nfRet, config, lookups,
                   atlasVars, blendVars, nanByte, flt, newRet, frameVars>>

\* "return New(f), nil" when New returned r, or panicked
readReturns(r) ==
    /\ lookups' = r.lookups
    /\ ran' = Append(ran, [stage |-> "New", err |-> r.err])
    /\ IF r.err = Panic THEN pc' = "panic" /\ UNCHANGED readRet
       ELSE /\ pc' = "done"
            /\ readRet' = [returned |-> TRUE, sprite |-> TRUE, spr |-> r.spr,
                           err |-> NoErr]

\* Read after NewFile succeeded: "return New(f), nil"
ReadBuilds ==
    /\ pc = "Read"
    /\ nfRet.err = NoErr
    /\ readReturns(New(file, heap))
    /\ UNCHANGED <<input, file, heap, cur, nfRet, config,
                   atlasVars, blendVars, nanByte, flt, newRet, frameVars>>

\* DecodeConfig on the same input
CallDecodeConfig ==
    /\ pc # "idle"
    /\ ~config.returned
    /\ LET r == DecodeConfig(input)
       IN  config' = [returned |-> TRUE, cfg |-> r.cfg, err |-> r.err]
    /\ UNCHANGED <<input, pc, file, heap, cur, ran, nfRet, readRet, lookups,
                   atlasVars, blendVars, nanByte, flt, newRet, frameVars>>

Next ==
    \/ DoReadFrom
    \/ DoInitPalette
    \/ DoInitLayers
    \/ DoInitCelsChunk
    \/ DoInitCelsEnd
    \/ ReadReturnsErr
    \/ ReadBuilds
    \/ CallDecodeConfig

Spec == Init /\ [][Next]_vars

(***************************************************************************)
(* C1: for every frame count n >= 1 factorPowerOfTwo(n) is (a, b) with     *)
(* x = ceil(log2 n), a = 2^(x - x div 2), b = 2^(x div 2): a and b are     *)
(* powers of two, a >= b, a*b >= n; 1 -> (1,1), 2 -> (2,1), 4 -> (2,2),    *)
(* 10 -> (4,4), 16 -> (4,4).                                               *)
(***************************************************************************)
IsPow2(v) == \E k \in 0..MaxFrames : v = Pow2(k)

C1_FactorPowerOfTwo ==
    grid # <<>> =>
        /\ \E x \in 0..MaxFrames :
              /\ Pow2(x) >= nframes
              /\ (x > 0 => Pow2(x - 1) < nframes)
              /\ grid[1] = Pow2(x - (x \div 2))
              /\ grid[2] = Pow2(x \div 2)
        /\ IsPow2(grid[1]) /\ IsPow2(grid[2])
        /\ grid[1] >= grid[2]
        /\ grid[1] * grid[2] >= nframes
        /\ (nframes = 1 => grid = <<1, 1>>)
        /\ (nframes = 2 => grid = <<2, 1>>)
        /\ (nframes = 4 => grid = <<2, 2>>)
        /\ (nframes = 10 => grid = <<4, 4>>)
        /\ (nframes = 16 => grid = <<4, 4>>)

C1_Witness == nframes = 10 /\ grid = <<4, 4>>

(***************************************************************************)
(* C2: for n >= 1 frames of size w x h, with (cols, rows) the grid factors *)
(* swapped when w > h, makeAtlasFrames returns an atlas of cols*w by       *)
(* rows*h and puts frame i at column i mod cols, row i div cols, with size *)
(* w x h; every frame rectangle lies in the atlas and no two overlap.      *)
(***************************************************************************)
C2_AtlasLayout ==
    framesr # <<>> =>
        LET x    == CeilLog2(nframes)
            a    == Pow2(x - (x \div 2))
            b    == Pow2(x \div 2)
            cols == IF framew > frameh THEN b ELSE a
            rows == IF framew > frameh THEN a ELSE b
        IN  /\ atlasr.Min = Pt(0, 0)
            /\ atlasr.Max = Pt(cols * framew, rows * frameh)
            /\ Len(framesr) = nframes
            /\ \A i \in 0..(nframes - 1) :
                  LET r == framesr[i + 1]
                  IN  /\ r.Min = Pt((i % cols) * framew, (i \div cols) * frameh)
                      /\ Dx(r) = framew /\ Dy(r) = frameh
                      /\ r.Min.X >= 0 /\ r.Min.Y >= 0
                      /\ r.Max.X <= atlasr.Max.X /\ r.Max.Y <= atlasr.Max.Y
                      /\ RectIn(r, atlasr)
            /\ \A i, j \in 1..nframes : i # j => ~Overlaps(framesr[i], framesr[j])

C2_Witness ==
    /\ nframes = 10 /\ framew = 3 /\ frameh = 2
    /\ Len(framesr) = 10
    /\ atlasr.Max = Pt(12, 8)

(***************************************************************************)
(* C3: for every input that DecodeConfig and Read both accept, the width,  *)
(* the height and the colour model DecodeConfig reports are those of the   *)
(* atlas Read built: the palette for 8 bits, Gray16 for 16, RGBA for 32.   *)
(***************************************************************************)
C3_ConfigAgreesWithDecode ==
    (readRet.returned /\ readRet.sprite /\ config.returned /\ config.err = NoErr) =>
        /\ config.cfg.Width = Dx(readRet.spr.Image.Rect)
        /\ config.cfg.Height = Dy(readRet.spr.Image.Rect)
        /\ config.cfg.ColorModel = readRet.spr.Image.model
        /\ config.cfg.ColorModel.kind =
              (CASE input.bpp = 8 -> "Paletted" [] input.bpp = 16 -> "Gray16"
                 [] OTHER -> "RGBA")
        /\ (input.bpp = 8 => config.cfg.ColorModel.palette = file.palette)

C3_Witness ==
    /\ readRet.returned /\ readRet.sprite
    /\ config.returned /\ config.err = NoErr
    /\ input.bpp = 8 /\ input.framew = 2 /\ input.frameh = 1 /\ Len(file.frames) = 2
    /\ config.cfg.Width = 2 /\ config.cfg.Height = 2

(***************************************************************************)
(* C4: after ReadFrom's pre-fill and initPalette, the palette entry at the *)
(* transparent index is fully transparent (alpha 0), whichever chunk       *)
(* (0x2019, 0x0004, 0x0011, none) supplied the colours and whatever it     *)
(* wrote at that index.  C4_TransparentEntryAlways states it for all files; *)
(* C4_TransparentEntryWhenFlagged states it for the files whose header     *)
(* flags have bit 0 set, for the palette of Read and of DecodeConfig.      *)
(***************************************************************************)
PaletteBuilt ==
    \E k \in 1..Len(ran) : ran[k].stage = "initPalette" /\ ran[k].err = NoErr

FullyTransparent(col) == ColorRGBA(col)[4] = 0

C4_TransparentEntryAlways ==
    PaletteBuilt => FullyTransparent(file.palette[file.transparent + 1])

C4_TransparentEntryWhenFlagged ==
    /\ (PaletteBuilt /\ Bit(file.flags, 0)) =>
            FullyTransparent(file.palette[file.transparent + 1])
    /\ (config.returned /\ config.err = NoErr /\ input.bpp = 8 /\ Bit(input.flags, 0)) =>
            FullyTransparent(config.cfg.ColorModel.palette[input.transparent + 1])

C4_Witness ==
    /\ PaletteBuilt /\ Bit(file.flags, 0)
    /\ file.transparent = 2
    /\ input.frames[1].chunks[1].typ = TypOldPalette04
    /\ input.frames[1].chunks[1].packets[1].colors[3] = Teal
    /\ file.palette[2] = NRGBA(255, 0, 0, 255)
    /\ file.palette[3] = Transparent

(***************************************************************************)
(* C5: in an 8-bit file every pixel byte of a cel that is no index into    *)
(* the palette (byte >= palette size) is remapped to the transparent index *)
(* before the cel is composited: the compositor never looks up a palette   *)
(* entry outside the table.                                                *)
(***************************************************************************)
C5_NoLookupOutsidePalette ==
    \A k \in lookups : k < Len(file.palette)

(***************************************************************************)
(* C6: the turn of initCels on a cel chunk of type 1 on a visible layer    *)
(* that is no reference layer allocates no raster (it reads the index of   *)
(* the source frame and no pixel bytes), and the cel it stores in the slot *)
(* of the current frame points to the very raster, bounds included, of the *)
(* cel in the slot of the source frame.                                    *)
(***************************************************************************)
\* the chunk the loops of initCels are at
(***************************************************************************)
(* A client of the package: NewFile, then calls of FilterLayers on the     *)
(* File, then New.                                                         *)
(***************************************************************************)
RECURSIVE initCelsFrom(_, _, _)
\* the loops of file.initCels from chunk c = <<i, j>> on: [f, heap, err]
initCelsFrom(f, hp, c) ==
    IF c = <<0, 0>> THEN [f |-> f, heap |-> hp, err |-> NoErr]
    ELSE LET r == initCelsChunk(f, hp, c[1], c[2])
         IN  IF r.err # NoErr THEN [f |-> r.f, heap |-> r.heap, err |-> r.err]
             ELSE initCelsFrom(r.f, r.heap, nextChunk(f, c[1], c[2]))

\* the stages of NewFile after initPalette, on the File p it left
newFileLayersAndCels(p) ==
    IF initLayers(p).err # NoErr THEN [f |-> p, heap |-> <<>>, err |-> initLayers(p).err]
    ELSE initCelsFrom(initLayers(p).f, <<>>, firstChunkFrom(initLayers(p).f, 1))

\* NewFile: [f, heap, err]
NewFile(in) ==
    IF ReadFrom(in).err # NoErr
    THEN [f |-> ZeroFile, heap |-> <<>>, err |-> ReadFrom(in).err]
    ELSE IF ReadFrom(in).f.frames = <<>> \/ initPalette(ReadFrom(in).f).err # NoErr
    THEN [f |-> ZeroFile, heap |-> <<>>, err |-> Panic]
    ELSE newFileLayersAndCels(initPalette(ReadFrom(in).f).f)

\* the layers of f as a set
LayerSet(f) == {f.Layers[l] : l \in 1..Len(f.Layers)}

\* the most calls of FilterLayers on one File
MaxFilterCalls == 1

\* the client calls f.FilterLayers(keep)
CallFilterLayers ==
    /\ pc = "client"
    /\ ~newRet.returned
    /\ flt.calls < MaxFilterCalls
    /\ \E keep \in SUBSET LayerSet(file) :
            /\ file' = FilterLayers(file, keep)
            /\ flt' = [calls |-> flt.calls + 1, keep |-> keep, before |-> file]
    /\ UNCHANGED <<input, pc, heap, cur, ran, nfRet, readRet, config, lookups, newRet,
                   atlasVars, blendVars, nanByte, frameVars>>

\* New returned r, or panicked
newReturns(r) ==
    newRet' = [returned |-> TRUE, sprite |-> r.err = NoErr, spr |-> r.spr, err |-> r.err]

\* the client then calls New(f)
CallNew ==
    /\ pc = "client"
    /\ flt.calls > 0
    /\ ~newRet.returned
    /\ newReturns(New(file, heap))
    /\ UNCHANGED <<input, pc, file, heap, cur, ran, nfRet, readRet, config, lookups, flt,
                   atlasVars, blendVars, nanByte, frameVars>>

\* the inputs of the client: those NewFile returns a File for
FilterInit ==
    /\ nanByte = 0
    /\ AtlasIdle
    /\ BlendIdle
    /\ FrameIdle
    /\ input \in {in \in FilterInputs \cup LayerInputs : NewFile(in).err = NoErr}
    /\ pc = "client"
    /\ file = NewFile(input).f
    /\ heap = NewFile(input).heap
    /\ cur = <<0, 0>>
    /\ ran = <<>>
    /\ nfRet = [returned |-> TRUE, file |-> TRUE, err |-> NoErr]
    /\ readRet = NotReturned
    /\ config = NotReturned
    /\ lookups = {}
    /\ flt = NoCalls
    /\ newRet = NotReturned

FilterNext == CallFilterLayers \/ CallNew

SpecFilter == FilterInit /\ [][FilterNext]_vars

(***************************************************************************)
(* The frame reader on bytes: frame.Read and chunk.Read as the frame loop  *)
(* of ReadFrom runs them on the body of a file, the slice raw.  A slice    *)
(* expression or an index outside the slice panics.                        *)
(***************************************************************************)
\* binary.LittleEndian.Uint16(b[o:]) and Uint32(b[o:]), for o + 2 (o + 4) <= len(b)
Uint16(b, o) == b[o + 1] + 256 * b[o + 2]
Uint32(b, o) == b[o + 1] + 256 * b[o + 2] + 65536 * b[o + 3] + 16777216 * b[o + 4]

\* b[n:], for n <= len(b)
Drop(b, n) == SubSeq(b, n + 1, Len(b))

\* a variant of chunkRead in which a declared length below 6 gives an empty payload
\* instead of a panic
chunkRead_clamped(b) ==
    IF Len(b) < 6 \/ Uint32(b, 0) > Len(b)
    THEN [c |-> [typ |-> 0, raw |-> <<>>], rest |-> <<>>, err |-> Panic]
    ELSE [c |-> [typ |-> Uint16(b, 4), raw |-> SubSeq(b, 7, Uint32(b, 0))],
          rest |-> Drop(b, Uint32(b, 0)), err |-> NoErr]

\* chunk.Read: [c, rest, err]
chunkRead(b) ==
    LET none == [c |-> [typ |-> 0, raw |-> <<>>], rest |-> <<>>, err |-> Panic]
    IN  IF Len(b) < 6 THEN none
        ELSE LET chunkLen == Uint32(b, 0)
             IN  IF chunkLen < 6 \/ chunkLen > Len(b) THEN none
                 ELSE [c |-> [typ |-> Uint16(b, 4), raw |-> SubSeq(b, 7, chunkLen)],
                       rest |-> Drop(b, chunkLen), err |-> NoErr]

RECURSIVE chunksRead(_, _, _)
\* the loop "for i := 0; i < nchunks; i++" of frame.Read: [chunks, rest, err]
chunksRead(b, n, acc) ==
    IF n = 0 THEN [chunks |-> acc, rest |-> b, err |-> NoErr]
    ELSE LET r == chunkRead(b)
         IN  IF r.err # NoErr THEN [chunks |-> acc, rest |-> <<>>, err |-> r.err]
             ELSE chunksRead(r.rest, n - 1, Append(acc, r.c))

\* the count of chunks taken from the legacy field alone
chunkCount_legacy(oldChunks, newChunks) == oldChunks

\* "nchunks := int(newChunks); if nchunks == 0 { nchunks = int(oldChunks) }"
chunkCount(oldChunks, newChunks) == IF newChunks = 0 THEN oldChunks ELSE newChunks

\* frame.Read on the bytes b: [fr, rest, err]
frameReadRaw(b) ==
    LET none(e) == [fr |-> [dur |-> 0, chunks |-> <<>>], rest |-> <<>>, err |-> e]
    IN  IF Len(b) < 6 THEN none(Panic)
        ELSE IF Uint16(b, 4) # FrameMagic THEN none(errInvalidMagic)
        ELSE IF Len(b) < 16 THEN none(Panic)
        ELSE LET r == chunksRead(Drop(b, 16), chunkCount(Uint16(b, 6), Uint32(b, 12)),
                                 <<>>)
             IN  IF r.err # NoErr THEN none(r.err)
                 ELSE [fr |-> [dur |-> Uint16(b, 8), chunks |-> r.chunks],
                       rest |-> r.rest, err |-> NoErr]

\* little-endian bytes of a value
Le16(v) == <<v % 256, v \div 256>>
Le32(v) == <<v % 256, (v \div 256) % 256, (v \div 65536) % 256, v \div 16777216>>

\* the bytes of a chunk record: length, type, payload
ChunkBytes(c) == Le32(6 + Len(c.raw)) \o Le16(c.typ) \o c.raw

RECURSIVE ChunksBytes(_)
ChunksBytes(cs) == IF cs = <<>> THEN <<>> ELSE ChunkBytes(Head(cs)) \o ChunksBytes(Tail(cs))

\* the bytes of a frame record: length, magic, legacy chunk count, duration, two
\* reserved bytes, chunk count, chunks
FrameBytes(fr) ==
    Le32(16 + Len(ChunksBytes(fr.chunks))) \o Le16(FrameMagic) \o Le16(fr.old)
    \o Le16(fr.dur) \o <<0, 0>> \o Le32(fr.new) \o ChunksBytes(fr.chunks)

RECURSIVE FramesBytes(_)
FramesBytes(frs) ==
    IF frs = <<>> THEN <<>> ELSE FrameBytes(Head(frs)) \o FramesBytes(Tail(frs))

\* the chunk lists of a frame record
RawChunkLists ==
    {<<>>,
     <<[typ |-> TypLayer, raw |-> <<1, 2>>]>>,
     <<[typ |-> TypCel, raw |-> <<>>], [typ |-> TypUserData, raw |-> <<3>>]>>,
     <<[typ |-> TypLayer, raw |-> <<4>>], [typ |-> TypCel, raw |-> <<5, 6, 7>>],
       [typ |-> TypTags, raw |-> <<8>>]>>}

\* frame records: the chunks with a legacy count and a count that agree with them
\* (legacy only, new only, legacy 0xFFFF), or that differ from each other
RawFrames ==
    UNION {{[old |-> Len(cs), new |-> 0, dur |-> 100, chunks |-> cs],
            [old |-> 0, new |-> Len(cs), dur |-> 250, chunks |-> cs],
            [old |-> 65535, new |-> Len(cs), dur |-> 100, chunks |-> cs],
            [old |-> Len(cs) + 1, new |-> Len(cs), dur |-> 100, chunks |-> cs],
            [old |-> Len(cs), new |-> 1, dur |-> 100, chunks |-> cs]} :
           cs \in RawChunkLists}

\* the most frame records of a body
MaxRawFrames == 2

\* the frame records after the first: none, or up to MaxRawFrames - 1 records of one
\* chunk or of no chunk
LaterRawFrames ==
    UNION {[1..n -> {[old |-> 1, new |-> 0, dur |-> 50,
                      chunks |-> <<[typ |-> TypCel, raw |-> <<9>>]>>],
                     [old |-> 0, new |-> 0, dur |-> 50, chunks |-> <<>>]}] :
           n \in 0..(MaxRawFrames - 1)}

\* the bodies: up to MaxRawFrames frame records, whole or cut short
\* bytes after the last frame record: a chunk prefix of declared length v and one
\* more byte
ChunkTails == {Le32(v) \o Le16(TypCel) \o <<1>> : v \in {0, 5, 6, 7}}

\* frame records that count one chunk more than they hold
OverCounted ==
    {[old |-> 1, new |-> 0, dur |-> 100, chunks |-> <<>>],
     [old |-> 0, new |-> 2, dur |-> 100, chunks |-> <<[typ |-> TypLayer, raw |-> <<1, 2>>]>>]}

RawInputs ==
    UNION {{[frames |-> frs, tail |-> <<>>, cut |-> c] : c \in 0..Len(FramesBytes(frs))} :
           frs \in {<<fr>> \o later : fr \in RawFrames, later \in LaterRawFrames}}
    \cup {[frames |-> <<fr>>, tail |-> t, cut |-> Len(FrameBytes(fr)) + Len(t)] :
            fr \in OverCounted, t \in ChunkTails}

\* the body of the file made: the slice raw before the frame loop
body == SubSeq(FramesBytes(made.frames) \o made.tail, 1, made.cut)

FrameInit ==
    /\ nanByte = 0
    /\ AtlasIdle
    /\ BlendIdle
    /\ PipelineIdle
    /\ made \in RawInputs
    /\ raw = body
    /\ read = <<>>
    /\ rpc = "frames"
    /\ rerr = NoErr

\* fr.Read(raw) returned r, or panicked
frameReturns(r) ==
    IF r.err = Panic THEN rpc' = "panic" /\ UNCHANGED <<raw, read, rerr>>
    ELSE IF r.err # NoErr THEN rpc' = "error" /\ rerr' = r.err /\ UNCHANGED <<raw, read>>
    ELSE raw' = r.rest /\ read' = Append(read, r.fr) /\ UNCHANGED <<rpc, rerr>>

\* a turn of "for len(raw) > 0" of ReadFrom
ReadFrame ==
    /\ rpc = "frames"
    /\ Len(raw) > 0
    /\ frameReturns(frameReadRaw(raw))
    /\ UNCHANGED <<made, atlasVars, blendVars, pipeVars, nanByte>>

\* the end of the loop: "return fileSize, nil"
ReadEnd ==
    /\ rpc = "frames"
    /\ Len(raw) = 0
    /\ rpc' = "done"
    /\ UNCHANGED <<made, raw, read, rerr, atlasVars, blendVars, pipeVars, nanByte>>

FrameNext == ReadFrame \/ ReadEnd

SpecFrame == FrameInit /\ [][FrameNext]_vars

\* the frame loop as the goroutine that called ReadFrom runs it: it goes on to the
\* next turn, or returns, as long as it has neither returned nor panicked
\* the bodies of the runs whose end is checked: whole, empty, or cut inside the
\* frame prefix (before and after the magic number), at its end, inside the first
\* chunk prefix, inside a payload, or before the last byte
LiveInputs ==
    {in \in RawInputs :
        in.cut \in {0, 3, 6, 15, 16, 20, 22}
                   \cup {Len(FramesBytes(in.frames) \o in.tail) - k : k \in {0, 1}}}

FrameLiveInit ==
    /\ nanByte = 0
    /\ AtlasIdle
    /\ BlendIdle
    /\ PipelineIdle
    /\ made \in LiveInputs
    /\ raw = body
    /\ read = <<>>
    /\ rpc = "frames"
    /\ rerr = NoErr

SpecFrameLive == FrameLiveInit /\ [][FrameNext]_vars /\ WF_vars(FrameNext)

CurChunk == file.frames[cur[1]].chunks[cur[2]]

\* a turn of the chunk loop on a cel chunk of an existing layer is being taken
CelTurn ==
    /\ pc = "initCels" /\ cur # <<0, 0>> /\ cur' # cur
    /\ CurChunk.typ = TypCel
    /\ CurChunk.layer < Len(file.Layers)

C6_LinkedCelSharesRaster ==
    [][(/\ CelTurn
        /\ CurChunk.celtype = 1
        /\ Bit(file.Layers[CurChunk.layer + 1].Flags, 0)
        /\ ~Bit(file.Layers[CurChunk.layer + 1].Flags, 6)
        /\ CurChunk.link < Len(file.frames))
       => LET l   == CurChunk.layer + 1
              src == CurChunk.link + 1
          IN  /\ heap' = heap
              /\ pc' = "initCels"
              /\ file'.frames[cur[1]].cels[l].image = file.frames[src].cels[l].image
              /\ file'.frames[cur[1]].cels[l].image = file'.frames[src].cels[l].image
              /\ file'.frames[cur[1]].cels[l].mask = file.frames[src].cels[l].mask]_vars

C6_Witness ==
    /\ pc = "done" /\ readRet.sprite
    /\ Len(file.frames) = 2
    /\ input.frames[2].chunks # <<>>
    /\ input.frames[2].chunks[1].celtype = 1
    /\ file.frames[1].cels[1].image = 1
    /\ file.frames[2].cels[1].image = 1
    /\ Len(heap) = 1

(***************************************************************************)
(* C7: in Blend, for each of the 19 modes and every destination pixel, a   *)
(* source pixel whose alpha is zero gives the source pixel itself as the   *)
(* blended output; the formula of the mode is not applied to it.           *)
(***************************************************************************)
C7_ZeroAlphaVerbatim ==
    (blendOut # NoColor /\ ColorRGBA(blendSrc)[4] = 0) => blendOut = blendSrc

C7_Witness ==
    /\ blendMode = 18
    /\ blendSrc = NRGBA(255, 129, 0, 0)
    /\ blendDst = RGBA(129, 0, 255, 255)
    /\ blendOut = blendSrc

(***************************************************************************)
(* C8: for the Hue mode, whenever the source pixel has saturation 0 (its   *)
(* red, green and blue channels are equal) the output is the destination   *)
(* pixel unchanged, for every destination pixel.                           *)
(***************************************************************************)
C8_HueAchromaticSource ==
    LET s == ColorRGBA(blendSrc)
    IN  (modeOut # NoColor /\ blendMode = 12 /\ s[1] = s[2] /\ s[2] = s[3])
            => modeOut = blendDst

C8_Witness ==
    /\ blendMode = 12
    /\ blendSrc = NRGBA(129, 129, 129, 255)
    /\ blendDst = RGBA(129, 0, 255, 255)
    /\ modeOut = blendDst

(***************************************************************************)
(* C9: the turn of initCels on a cel chunk whose layer has the visible     *)
(* flag (bit 0) clear or the reference flag (bit 6) set leaves the cel     *)
(* slot of that frame and layer empty, attaches no user data and raises no *)
(* error, whatever the cel type and payload of the chunk.                  *)
(***************************************************************************)
C9_SkippedLayerStoresNothing ==
    [][(/\ CelTurn
        /\ \/ ~Bit(file.Layers[CurChunk.layer + 1].Flags, 0)
           \/ Bit(file.Layers[CurChunk.layer + 1].Flags, 6))
       => /\ file'.frames[cur[1]].cels[CurChunk.layer + 1] = EmptyCel
          /\ file' = file
          /\ heap' = heap
          /\ pc' = "initCels" /\ ran' = ran /\ nfRet' = nfRet]_vars

C9_Witness ==
    /\ pc = "done" /\ readRet.sprite
    /\ file.Layers[1].Flags = 65
    /\ input.frames[1].chunks[2].typ = TypCel
    /\ input.frames[1].chunks[2].celtype = 3
    /\ input.frames[1].chunks[3].typ = TypUserData
    /\ file.frames[1].cels[1] = EmptyCel
    /\ readRet.spr.Frames[1].Data = <<>>

(***************************************************************************)
(* C10: when a stage of the decode (ReadFrom, initLayers, initCels)        *)
(* reports an error, no later stage runs, NewFile returns that error and   *)
(* no File, and Read returns that error and no sprite; NewFile returns a   *)
(* File, and Read a sprite, only when every stage ran without an error.    *)
(***************************************************************************)
\* the stages of NewFile, in order
NewFileStages == <<"ReadFrom", "initPalette", "initLayers", "initCels">>

C10_ErrorsPropagate ==
    /\ \A k \in 1..Len(ran) :
          ran[k].err \notin {NoErr, Panic} =>
              /\ k = Len(ran)
              /\ nfRet.returned /\ ~nfRet.file /\ nfRet.err = ran[k].err
              /\ readRet.returned => (~readRet.sprite /\ readRet.err = ran[k].err)
              /\ pc = "done" => readRet.returned
    /\ nfRet.returned =>
          /\ nfRet.file <=> nfRet.err = NoErr
          /\ nfRet.file =>
                /\ Len(ran) >= 4
                /\ \A k \in 1..4 : ran[k] = [stage |-> NewFileStages[k], err |-> NoErr]
    /\ readRet.returned =>
          /\ readRet.sprite <=> readRet.err = NoErr
          /\ readRet.sprite => (nfRet.returned /\ nfRet.file /\ \A k \in 1..Len(ran) : ran[k].err = NoErr)
          /\ ~readRet.sprite => (nfRet.returned /\ readRet.err = nfRet.err)

C10_Witness ==
    /\ pc = "done"
    /\ Len(ran) = 4
    /\ ran[4] = [stage |-> "initCels", err |-> errCelType]
    /\ nfRet = [returned |-> TRUE, file |-> FALSE, err |-> errCelType]
    /\ readRet.returned /\ ~readRet.sprite /\ readRet.err = errCelType

(***************************************************************************)
(* C11: ReadFrom rejects a header whose magic is not 0xA5E0 with the       *)
(* invalid-magic error, one whose two pixel-aspect bytes differ with the   *)
(* pixel-ratio error, one whose colour depth is not 8, 16 or 32 with the   *)
(* colour-depth error, and a frame record whose magic is not 0xF1FA with   *)
(* the invalid-magic error (each for the first of these tests that fails,  *)
(* in the order ReadFrom makes them); NewFile, Read and DecodeConfig then  *)
(* return that error and no File, sprite or configuration.                 *)
(***************************************************************************)
\* everything returned so far is the error e and nothing else
RejectedWith(e) ==
    /\ ran[1] = [stage |-> "ReadFrom", err |-> e]
    /\ Len(ran) = 1
    /\ nfRet = [returned |-> TRUE, file |-> FALSE, err |-> e]
    /\ readRet.returned => (~readRet.sprite /\ readRet.err = e)
    /\ config.returned => (config.cfg = NoConfig /\ config.err = e)

C11_ReaderRejects ==
    LET full    == input.headerBytes = HeaderSize
        magicOk == input.magic = HeaderMagic
        ratioOk == input.pixw = input.pixh
        depthOk == input.bpp \in {8, 16, 32}
        badFrame == \E k \in 1..Len(input.frames) : input.frames[k].magic # FrameMagic
    IN  (Len(ran) >= 1 /\ full) =>
           /\ ~magicOk => RejectedWith(errInvalidMagic)
           /\ (magicOk /\ ~ratioOk) => RejectedWith(errPixelRatio)
           /\ (magicOk /\ ratioOk /\ ~depthOk) => RejectedWith(errColorDepth)
           /\ (magicOk /\ ratioOk /\ depthOk /\ input.transparent < input.palsize
                  /\ ~input.bodyShort /\ badFrame) => RejectedWith(errInvalidMagic)
           /\ (~magicOk \/ ~ratioOk \/ ~depthOk) =>
                  (nfRet.returned /\ ~nfRet.file /\ nfRet.err # NoErr)

C11_Witness ==
    /\ pc = "done"
    /\ input.magic = HeaderMagic /\ input.pixw = input.pixh /\ input.bpp = 16
    /\ input.frames[1].magic # FrameMagic
    /\ readRet.returned /\ ~readRet.sprite /\ readRet.err = errInvalidMagic
    /\ config.returned /\ config.err = errInvalidMagic

\* C12: a sprite that Read returns has one Frame per frame record, in order; frame i
\* has the i-th rectangle of the atlas layout as Bounds and the duration of its
\* record as Duration; Tags has as many tags as the count of the first tags chunk of
\* frame 0 says, and none when frame 0 has no tags chunk.
C12_FramesAndTags ==
    (readRet.returned /\ readRet.sprite) =>
        LET s      == readRet.spr
            recs   == input.frames
            layout == makeAtlasFrames(Len(recs), input.framew, input.frameh)
            tagsAt == {k \in 1..Len(recs[1].chunks) : recs[1].chunks[k].typ = TypTags}
        IN  /\ Len(s.Frames) = Len(recs)
            /\ \A i \in 1..Len(recs) :
                    /\ s.Frames[i].Bounds = layout.framesr[i]
                    /\ s.Frames[i].Duration = recs[i].dur
            /\ tagsAt = {} => s.Tags = <<>>
            /\ tagsAt # {} =>
                    Len(s.Tags) = recs[1].chunks[CHOOSE k \in tagsAt :
                                                    \A j \in tagsAt : k <= j].ntags

\* a sprite of two frames of different durations and Bounds whose tags chunk counts
\* fewer tags than it holds
C12_Witness ==
    /\ readRet.returned /\ readRet.sprite
    /\ Len(input.frames) = 2
    /\ readRet.spr.Frames[1].Duration # readRet.spr.Frames[2].Duration
    /\ readRet.spr.Frames[1].Bounds # readRet.spr.Frames[2].Bounds
    /\ readRet.spr.Tags = <<Walk>>
    /\ \E k \in 1..Len(input.frames[1].chunks) :
            input.frames[1].chunks[k] = TagsChunk(1, <<Walk, Idle>>)

RECURSIVE keptFrom(_, _, _)
\* the positions, from l on, of the layers of the sequence layers that are in keep
keptFrom(layers, keep, l) ==
    IF l > Len(layers) THEN <<>>
    ELSE (IF layers[l] \in keep THEN <<l>> ELSE <<>>) \o keptFrom(layers, keep, l + 1)

\* C13: after f.FilterLayers(keep), Layers is the layers before the call that keep
\* holds of, in their order, and the cel list of every frame is the cels those
\* layers had, in the same order, with no cel of a removed layer left.
C13_FilterKeepsLayersAndCels ==
    flt.calls > 0 =>
        LET kept == keptFrom(flt.before.Layers, flt.keep, 1)
        IN  /\ file.Layers = [k \in 1..Len(kept) |-> flt.before.Layers[kept[k]]]
            /\ \A i \in 1..Len(file.frames) :
                    file.frames[i].cels =
                        [k \in 1..Len(kept) |-> flt.before.frames[i].cels[kept[k]]]

\* C14: in the File that NewFile returned, after any calls of FilterLayers, the cel
\* list of every frame is as long as the list of layers.
C14_CelsMatchLayers ==
    (nfRet.returned /\ nfRet.file) =>
        \A i \in 1..Len(file.frames) : Len(file.frames[i].cels) = Len(file.Layers)

\* the positions of the chunks of type typ in chunks, in order
positionsOf(chunks, typ) ==
    LET at == {k \in 1..Len(chunks) : chunks[k].typ = typ}
    IN  [n \in 1..Cardinality(at) |->
            CHOOSE k \in at : Cardinality({j \in at : j < k}) = n - 1]

\* the text of the user-data chunk right after chunk k, none when another chunk or
\* no chunk is there
TextAfter(chunks, k) ==
    IF k < Len(chunks) /\ chunks[k + 1].typ = TypUserData THEN chunks[k + 1].text
    ELSE <<>>

\* every layer has the text of the user-data chunk right after its chunk in frame 0,
\* and no user data when no user-data chunk is there
LayersCarryFollowingData ==
    (Len(ran) >= 3 /\ ran[3] = [stage |-> "initLayers", err |-> NoErr])
        => LET chunks == input.frames[1].chunks
               at     == positionsOf(chunks, TypLayer)
           IN  /\ Len(file.Layers) = Len(at)
               /\ \A l \in 1..Len(at) :
                      file.Layers[l].Data = TextAfter(chunks, at[l])

\* every slice of a sprite has the text of the user-data chunk right after its chunk
\* in frame 0, and no user data when no user-data chunk is there
SlicesCarryFollowingData ==
    (readRet.returned /\ readRet.sprite)
        => LET chunks == input.frames[1].chunks
               at     == positionsOf(chunks, TypSlice)
           IN  /\ Len(readRet.spr.Slices) = Len(at)
               /\ \A s \in 1..Len(at) :
                      /\ readRet.spr.Slices[s].Name = chunks[at[s]].name
                      /\ readRet.spr.Slices[s].Data = TextAfter(chunks, at[s])

\* a turn of the chunk loop of initCels is being taken
ChunkTurn == pc = "initCels" /\ cur # <<0, 0>> /\ cur' # cur

\* the turn is on a cel chunk that stores a cel: its layer is visible and no
\* reference layer, and the chunk raises no error
StoringTurn ==
    /\ CelTurn
    /\ Bit(file.Layers[CurChunk.layer + 1].Flags, 0)
    /\ ~Bit(file.Layers[CurChunk.layer + 1].Flags, 6)
    /\ pc' = "initCels"

\* the cels other than the one of frame i and layer l are what they were
OtherCelsKept(i, l) ==
    \A i2 \in 1..Len(file.frames) : \A l2 \in 1..Len(file.Layers) :
        <<i2, l2>> # <<i, l>> => file'.frames[i2].cels[l2] = file.frames[i2].cels[l2]

\* C15 as stated: a layer, a stored cel and a slice carry exactly the text of the
\* user-data chunk right after their own chunk, and none when no user-data chunk is
\* there; a turn on any other chunk, or on a cel chunk that stores nothing, changes
\* no cel.
C15_UserDataFollowsItsChunk ==
    /\ []LayersCarryFollowingData
    /\ []SlicesCarryFollowingData
    /\ [][ChunkTurn =>
            IF StoringTurn
            THEN /\ file'.frames[cur[1]].cels[CurChunk.layer + 1].data
                        = TextAfter(file.frames[cur[1]].chunks, cur[2])
                 /\ OtherCelsKept(cur[1], CurChunk.layer + 1)
            ELSE file'.frames = file.frames]_vars

\* C15 amended: as above, but a linked cel (type 1) with no user-data chunk after its
\* chunk carries the user data the cel it links to has at that turn.
C15_UserDataFollowsItsChunkOrLink ==
    /\ []LayersCarryFollowingData
    /\ []SlicesCarryFollowingData
    /\ [][ChunkTurn =>
            IF StoringTurn
            THEN LET chunks == file.frames[cur[1]].chunks
                     l      == CurChunk.layer + 1
                     after  == cur[2] < Len(chunks) /\ chunks[cur[2] + 1].typ = TypUserData
                 IN  /\ file'.frames[cur[1]].cels[l].data =
                            IF after THEN chunks[cur[2] + 1].text
                            ELSE IF CurChunk.celtype = 1
                            THEN file.frames[CurChunk.link + 1].cels[l].data
                            ELSE <<>>
                     /\ OtherCelsKept(cur[1], l)
            ELSE file'.frames = file.frames]_vars

\* a sprite whose second frame has a linked cel with no user-data chunk after it,
\* and the user data of the cel of frame 0 in both frames
C15_Witness ==
    /\ readRet.returned /\ readRet.sprite
    /\ Len(input.frames) = 2
    /\ input.frames[2].chunks = <<LinkedCelChunk(0, 0)>>
    /\ input.frames[1].chunks[2].celtype = 0
    /\ file.frames[1].cels[1].data = SomeText
    /\ file.frames[2].cels[1].data = SomeText
    /\ readRet.spr.Frames[2].Data = <<SomeText>>

\* the members of the sequence s for which Test holds, in order
Pick(s, Test(_)) ==
    LET at == {k \in 1..Len(s) : Test(s[k])}
    IN  [n \in 1..Cardinality(at) |->
            s[CHOOSE k \in at : Cardinality({j \in at : j < k}) = n - 1]]

\* the layers of the input: the flags of each layer chunk of frame 0 and the text
\* of the user-data chunk after it
InputLayers ==
    LET chunks == input.frames[1].chunks
        at     == positionsOf(chunks, TypLayer)
    IN  [l \in 1..Len(at) |->
            [flags |-> chunks[at[l]].flags, text |-> TextAfter(chunks, at[l])]]

\* the texts of the user-data chunks after the cel chunks of layer l (from 1)
CelTextsOf(l) ==
    UNION {{TextAfter(input.frames[i].chunks, j) :
                j \in {k \in 1..Len(input.frames[i].chunks) :
                          /\ input.frames[i].chunks[k].typ = TypCel
                          /\ input.frames[i].chunks[k].layer = l - 1}} :
            i \in 1..Len(input.frames)} \ {<<>>}

\* the user data in LayerData and in the Data of the frames
ListedLayerData == {readRet.spr.LayerData[k] : k \in 1..Len(readRet.spr.LayerData)}
ListedCelData ==
    UNION {{readRet.spr.Frames[i].Data[k] : k \in 1..Len(readRet.spr.Frames[i].Data)} :
            i \in 1..Len(readRet.spr.Frames)}

\* LayerData is, in layer order, the user data of the layers with bit 0 of their
\* flags set that have some; Frames[i].Data is, in layer order, the user data of the
\* cels of frame i that have some
ListsInLayerOrder ==
    LET visible(l) == Bit(l.flags, 0) /\ l.text # <<>>
        withData(c) == c.data # <<>>
        shown == Pick(InputLayers, visible)
    IN  /\ readRet.spr.LayerData = [k \in 1..Len(shown) |-> shown[k].text]
        /\ \A i \in 1..Len(file.frames) :
               LET cels == Pick(file.frames[i].cels, withData)
               IN  readRet.spr.Frames[i].Data = [k \in 1..Len(cels) |-> cels[k].data]

HasTilemapLayer ==
    \E k \in 1..Len(input.frames[1].chunks) :
        /\ input.frames[1].chunks[k].typ = TypLayer
        /\ input.frames[1].chunks[k].ltype = 2

\* ch is a cel chunk of a visible layer that is no reference layer, of a cel type
\* other than 0, 1 and 2
UnsupportedCel(ch) ==
    /\ ch.typ = TypCel
    /\ ch.layer < Len(InputLayers)
    /\ Bit(InputLayers[ch.layer + 1].flags, 0)
    /\ ~Bit(InputLayers[ch.layer + 1].flags, 6)
    /\ ch.celtype \notin {0, 1, 2}

HasUnsupportedCel ==
    \E i \in 1..Len(input.frames) : \E j \in 1..Len(input.frames[i].chunks) :
        UnsupportedCel(input.frames[i].chunks[j])

\* C17: of a file whose frame 0 has a tilemap layer chunk, initLayers reports the
\* tilemap error; the turn of initCels on a cel chunk of a visible, non-reference
\* layer with a cel type other than 0, 1 and 2 reports the cel-type error; NewFile
\* returns that error and no File, and whenever Read returns for a file with either
\* content it returns an error and no sprite.
C17_UnsupportedContentFails ==
    /\ []((Len(ran) >= 3 /\ ran[3].stage = "initLayers" /\ HasTilemapLayer) =>
            /\ ran[3].err = errTilemap
            /\ Len(ran) = 3
            /\ nfRet = [returned |-> TRUE, file |-> FALSE, err |-> errTilemap])
    /\ []((readRet.returned /\ (HasTilemapLayer \/ HasUnsupportedCel)) =>
            (~readRet.sprite /\ readRet.spr = NoSprite /\ readRet.err # NoErr))
    /\ [][(ChunkTurn /\ ~HasTilemapLayer /\ UnsupportedCel(CurChunk)) =>
            /\ pc' = "Read"
            /\ nfRet' = [returned |-> TRUE, file |-> FALSE, err |-> errCelType]
            /\ file' = file]_vars

\* Read returned the tilemap error for a file whose second layer is a tilemap layer
C17_Witness ==
    /\ readRet.returned /\ ~readRet.sprite /\ readRet.err = errTilemap
    /\ Len(InputLayers) = 2
    /\ input.frames[1].chunks[2].ltype = 2
    /\ file.Layers # <<>>

\* the count of chunks the fields of the frame record fr give: the 32-bit count
\* when it is not zero, else the legacy count
CountOf(fr) == IF fr.new # 0 THEN fr.new ELSE fr.old

\* the body is whole frame records whose counts are the number of their chunks
WellFormed == \A k \in 1..Len(made.frames) : CountOf(made.frames[k]) = Len(made.frames[k].chunks)

\* the lengths of the body after each of its frame records
RecordEnds == {Len(FramesBytes(SubSeq(made.frames, 1, k))) : k \in 0..Len(made.frames)}

\* C18 (frame and chunk records): when the body ends inside a frame record or a
\* chunk record, the frame loop of ReadFrom ends with an error value.
C18_UnderrunIsAnError ==
    (WellFormed /\ made.cut \notin RecordEnds /\ rpc # "frames") =>
        (rpc = "error" /\ rerr # NoErr)

\* C19: of a whole body, the frame read from the first record has exactly N chunks,
\* N being the 32-bit count when it is not zero and the legacy count otherwise; when
\* the record holds that many, they are its first N chunks in order, each with its
\* type and with the bytes from 6 to its length as payload, and the bytes left to
\* the loop are those that follow the N-th chunk; the frames of a well-formed body
\* are all read with their chunks and durations.
C19_FrameYieldsCountedChunks ==
    (made.cut = Len(FramesBytes(made.frames)) /\ Len(read) >= 1) =>
        LET fr == made.frames[1]
            n  == CountOf(fr)
        IN  /\ Len(read[1].chunks) = n
            /\ read[1].dur = fr.dur
            /\ n <= Len(fr.chunks) =>
                   /\ read[1].chunks = SubSeq(fr.chunks, 1, n)
                   /\ Len(read) = 1 =>
                          raw = Drop(FramesBytes(made.frames),
                                     16 + Len(ChunksBytes(SubSeq(fr.chunks, 1, n))))
            /\ (WellFormed /\ rpc = "done") =>
                   read = [k \in 1..Len(made.frames) |->
                              [dur |-> made.frames[k].dur, chunks |-> made.frames[k].chunks]]

\* a whole body of two records was read; the first record has three chunks, a
\* legacy count of 4 and a count of 3
C19_Witness ==
    /\ rpc = "done"
    /\ Len(read) = 2
    /\ made.frames[1].old = 4 /\ made.frames[1].new = 3
    /\ Len(read[1].chunks) = 3
    /\ read[1].chunks[2] = [typ |-> TypCel, raw |-> <<5, 6, 7>>]
    /\ read[2].chunks = <<[typ |-> TypCel, raw |-> <<9>>]>>

\* the palette ReadFrom leaves: black, and transparent at the transparent index
Prefilled ==
    [k \in 1..input.palsize |-> IF k - 1 = input.transparent THEN Transparent ELSE Black]

\* C20: when frame 0 has a 0x2019 chunk, every palette entry is the colour the first
\* such chunk gives it, or what it was before initPalette when that chunk does not
\* cover it (the transparent entry apart, which bit 0 of the header flags forces):
\* no legacy chunk before or after it has written to the palette.  When frame 0 has
\* no 0x2019 chunk the palette is the one its last 0x0004 chunk gives, or without
\* 0x0004 chunks its last 0x0011 chunk, or the palette as it was.
C20_NewPaletteChunkWins ==
    PaletteBuilt =>
        LET chunks == input.frames[1].chunks
            new    == positionsOf(chunks, TypPalette)
            old04  == positionsOf(chunks, TypOldPalette04)
            old11  == positionsOf(chunks, TypOldPalette11)
            forced(k) == Bit(input.flags, 0) /\ k - 1 = input.transparent
        IN  /\ Len(file.palette) = input.palsize
            /\ new # <<>> =>
                   \A k \in 1..input.palsize :
                       file.palette[k] =
                           IF forced(k) THEN Transparent
                           ELSE IF /\ k - 1 >= chunks[new[1]].lo
                                   /\ k - 1 < chunks[new[1]].lo + Len(chunks[new[1]].colors)
                           THEN LET c == chunks[new[1]].colors[k - chunks[new[1]].lo]
                                IN  NRGBA(c[1], c[2], c[3], c[4])
                           ELSE Prefilled[k]
            /\ (new = <<>> /\ old04 # <<>>) =>
                   file.palette =
                       forceTransparent(file,
                           parseChunk0004(Prefilled, chunks[old04[Len(old04)]]).palette)
            /\ (new = <<>> /\ old04 = <<>> /\ old11 # <<>>) =>
                   file.palette =
                       forceTransparent(file,
                           parseChunk0011(Prefilled, chunks[old11[Len(old11)]]).palette)
            /\ (new = <<>> /\ old04 = <<>> /\ old11 = <<>>) =>
                   file.palette = forceTransparent(file, Prefilled)

\* a palette built from a 0x2019 chunk of entries 1 and 2 that lies after a 0x0004
\* chunk of entries 0 to 2: entry 0 is black as before, entry 1 is the chunk's
C20_Witness ==
    /\ PaletteBuilt
    /\ input.transparent = 2 /\ ~Bit(input.flags, 0)
    /\ input.frames[1].chunks[1].typ = TypOldPalette04
    /\ input.frames[1].chunks[2] = PaletteChunk(1, <<Clear, Teal>>)
    /\ file.palette[1] = Black
    /\ file.palette[2] = NRGBA(129, 0, 0, 0)
    /\ file.palette[3] = NRGBA(0, 129, 129, 255)

\* the opacity of layer l (from 1) of the input: that of the l-th layer chunk of frame 0
InputLayerOpacity(l) ==
    input.frames[1].chunks[positionsOf(input.frames[1].chunks, TypLayer)[l]].opacity

\* the cel the turn stores has the mask (celOpacity * layerOpacity) div 255 of the
\* opacity byte of its chunk and the opacity of its layer, a value in 0..255 that is
\* the opacity byte when the layer's opacity is 255 and 0 when either is 0
MaskFromOwnOpacity ==
    LET l    == CurChunk.layer + 1
        co   == CurChunk.opacity
        lo   == InputLayerOpacity(l)
        mask == file'.frames[cur[1]].cels[l].mask
    IN  /\ mask = (co * lo) \div 255
        /\ mask \in 0..255
        /\ lo = 255 => mask = co
        /\ (lo = 0 \/ co = 0) => mask = 0

\* C21 as stated: every turn of initCels that stores a cel, of whatever cel type,
\* gives it the mask (celOpacity * layerOpacity) div 255 of its own chunk.
C21_OpacityOfEveryStoredCel ==
    [][StoringTurn => MaskFromOwnOpacity]_vars

\* C21 amended: a turn that stores a raw or compressed cel (type 0 or 2) gives it
\* the mask (celOpacity * layerOpacity) div 255 of its own chunk; a turn that stores
\* a linked cel (type 1) gives it the mask of the cel it links to, whatever the
\* opacity byte of its own chunk.
C21_OpacityOfStoredImageCel ==
    [][StoringTurn =>
        IF CurChunk.celtype = 1
        THEN file'.frames[cur[1]].cels[CurChunk.layer + 1].mask
                = file.frames[CurChunk.link + 1].cels[CurChunk.layer + 1].mask
        ELSE MaskFromOwnOpacity]_vars

\* a compressed cel of opacity 128 on a layer of opacity 128 was stored with mask 64,
\* and the cel of the next frame, linked to it with an opacity byte of 77, has mask 64
C21_Witness ==
    /\ readRet.returned /\ readRet.sprite
    /\ Len(input.frames) >= 2
    /\ input.frames[1].chunks[1].opacity = 128
    /\ input.frames[1].chunks[2].opacity = 128 /\ input.frames[1].chunks[2].celtype = 2
    /\ input.frames[2].chunks[1].celtype = 1 /\ input.frames[2].chunks[1].opacity = 77
    /\ file.frames[1].cels[1].mask = 64
    /\ file.frames[2].cels[1].mask = 64


(***************************************************************************)
(* C22: the composite of a frame is a fold over the frame's own cels       *)
(***************************************************************************)
\* the file with no frame but frame i
OnlyFrame(f, i) == [f EXCEPT !.frames = <<f.frames[i]>>]

RECURSIVE FoldCels(_, _, _)
\* the cels of one frame applied in ascending layer index from layer l on, an
\* empty cel slot leaving the canvas as it is
FoldCels(canvas, cels, l) ==
    IF l > Len(cels) THEN canvas
    ELSE FoldCels(IF cels[l].image = 0 THEN canvas
                  ELSE compositeCel(canvas, file, heap, file.Layers[l], cels[l]),
                  cels, l + 1)

\* C22: in every sprite Read returns, the pixels of frame i in the atlas are the
\* fold of frame i's own cels, in ascending layer index, over a fully transparent
\* canvas, each cel composited (and blended) against the canvas the lower layers
\* of the same frame left and an empty cel slot changing nothing; they are the
\* pixels the file with frame i alone gives, so no other frame's cels matter.
C22_FrameIsFoldOfOwnCels ==
    (readRet.returned /\ readRet.sprite) =>
        \A i \in 1..Len(file.frames) :
            /\ readRet.spr.Image.frames[i]
                 = FoldCels([k \in 1..(file.framew * file.frameh) |-> RGBA(0, 0, 0, 0)],
                            file.frames[i].cels, 1)
            /\ readRet.spr.Image.frames[i] = compositeFrame(OnlyFrame(file, i), heap, 1)

\* a sprite of two frames: frame 0 has a cel on both layers, the upper one blended
\* (mode 1) against the lower; frame 1 has a cel on the upper layer only, which is
\* blended against the cleared canvas and not against what frame 0 left, so that
\* frame 1 stays transparent while frame 0 is not
C22_Witness ==
    /\ readRet.returned /\ readRet.sprite
    /\ Len(file.frames) = 2 /\ Len(file.Layers) = 2
    /\ file.Layers[2].BlendMode = 1
    /\ file.frames[1].cels[1].image # 0 /\ file.frames[1].cels[2].image # 0
    /\ file.frames[2].cels[1].image = 0 /\ file.frames[2].cels[2].image # 0
    /\ readRet.spr.Image.frames[1] # <<RGBA(0, 0, 0, 0)>>
    /\ readRet.spr.Image.frames[2] = <<RGBA(0, 0, 0, 0)>>


(***************************************************************************)
(* C23: which cels are blended before they are composited                  *)
(***************************************************************************)
\* the pixels of cel c drawn over the canvas: each canvas pixel under the cel
\* becomes the source-over of top(k, x, y) masked by the cel's effective opacity
DrawnOver(canvas, c, top(_, _, _)) ==
    LET w == file.framew
    IN  [k \in 1..Len(canvas) |->
            LET x == (k - 1) % w
                y == (k - 1) \div w
            IN  IF <<x, y>> \in celRegion(heap[c.image], w, file.frameh)
                THEN drawOver(canvas[k], top(k, x, y), c.mask)
                ELSE canvas[k]]

\* plain source-over of the cel's own raster
PlainOver(canvas, c) ==
    LET own(k, x, y) == imageAt(heap[c.image], file.palette, x, y)
    IN  DrawnOver(canvas, c, own)

\* the cel blended against the canvas into an RGBA buffer, then the buffer drawn over
BlendedOver(canvas, mode, c) ==
    LET buf(k, x, y) ==
            toRGBA(blendPixel(mode, canvas[k], imageAt(heap[c.image], file.palette, x, y)))
    IN  DrawnOver(canvas, c, buf)

RECURSIVE ByBlendMode(_, _, _)
\* the cels of one frame from layer l on, blended first for the modes 1..18 only
ByBlendMode(canvas, cels, l) ==
    IF l > Len(cels) THEN canvas
    ELSE IF cels[l].image = 0 THEN ByBlendMode(canvas, cels, l + 1)
    ELSE ByBlendMode(IF file.Layers[l].BlendMode \in 1..18
                     THEN BlendedOver(canvas, file.Layers[l].BlendMode, cels[l])
                     ELSE PlainOver(canvas, cels[l]),
                     cels, l + 1)

\* the pixels the cels of the file's frames are rasters of
CelPixels ==
    UNION {{imageAt(heap[c.image], file.palette, xy[1], xy[2]) :
                xy \in celRegion(heap[c.image], file.framew, file.frameh)} :
           c \in {cl \in UNION {{file.frames[i].cels[l] : l \in 1..Len(file.frames[i].cels)} :
                                 i \in 1..Len(file.frames)} : cl.image # 0}}

\* C23: Normal returns its source pixel whatever the destination; and in every
\* sprite Read returns, a cel of a layer whose blend mode is 0 or above 18 is
\* drawn over the canvas from its own raster, masked by its effective opacity,
\* while a cel of a layer of mode 1..18 is first blended against the canvas and
\* the blended buffer is then drawn over with the same mask.
C23_BlendOnlyForModes1To18 ==
    (readRet.returned /\ readRet.sprite) =>
        /\ \A src \in CelPixels :
              \A dst \in DstPixels \cup UNION {{readRet.spr.Image.frames[i][k] :
                                                    k \in 1..Len(readRet.spr.Image.frames[i])} :
                                                i \in 1..Len(file.frames)} :
                    Normal(dst, src) = src /\ Modes(0, dst, src) = src
        /\ \A i \in 1..Len(file.frames) :
              readRet.spr.Image.frames[i]
                = ByBlendMode(clearCanvas(file.framew, file.frameh), file.frames[i].cels, 1)

\* a sprite whose upper layer has blend mode 19: its half-opaque cel is drawn over
\* the lower one as it is, and a blend of mode 1 would have given other pixels
C23_Witness ==
    /\ readRet.returned /\ readRet.sprite
    /\ Len(file.Layers) = 2 /\ file.Layers[2].BlendMode = 19
    /\ file.frames[1].cels[1].image # 0 /\ file.frames[1].cels[2].image # 0
    /\ file.frames[1].cels[2].mask = 128
    /\ LET under == PlainOver(clearCanvas(file.framew, file.frameh), file.frames[1].cels[1])
       IN  /\ readRet.spr.Image.frames[1] = PlainOver(under, file.frames[1].cels[2])
           /\ readRet.spr.Image.frames[1] # under
           /\ readRet.spr.Image.frames[1] # BlendedOver(under, 1, file.frames[1].cels[2])


(***************************************************************************)
(* C24: the alpha of a blended pixel                                       *)
(***************************************************************************)
\* C24: for every mode but Normal, every destination pixel and every source pixel
\* of nonzero alpha, the colour Blend stores has the alpha of the destination
\* pixel.  (Violated: blendPerChannel rounds the 16-bit alpha a*257 by /256 + 0.5,
\* which is a + 1 for a in 128..254, and hsl2rgb always sets the alpha to 255.)
C24_BlendKeepsDestinationAlpha ==
    (blendOut # NoColor /\ blendMode # 0 /\ ColorRGBA(blendSrc)[4] # 0) =>
        /\ blendOut.model = "RGBA"
        /\ blendOut.c[4] = blendDst.c[4]


(***************************************************************************)
(* C25: the frame loop of ReadFrom terminates                              *)
(***************************************************************************)
\* a turn of the frame loop that did not fail
FramePassed == ReadFrame /\ rpc' = "frames"

\* C25: every turn of the frame loop on a non-empty buffer fails (with an error or
\* a panic) or takes a frame and at least 16 bytes off the buffer, and 6 more for
\* every chunk of the frame, so that the buffer shrinks; at all times 16 bytes of the
\* body are gone for every frame read, which bounds the frames by the body length;
\* and the loop ends: it returns with the buffer empty, returns an error or panics.
C25_FrameLoopTerminates ==
    /\ [][ReadFrame => (Len(raw) > 0 /\ (FramePassed \/ rpc' \in {"error", "panic"}))]_vars
    /\ [][FramePassed =>
            /\ read' = Append(read, read'[Len(read')])
            /\ Len(raw') + 16 + 6 * Len(read'[Len(read')].chunks) <= Len(raw)
            /\ Len(raw') < Len(raw)]_vars
    /\ [][/\ 16 * Len(read') + Len(raw') <= Len(body)
           /\ Len(read') <= Len(body)
           /\ rpc' = "done" => raw' = <<>>]_vars
    /\ <>(rpc \in {"done", "error", "panic"})

\* the loop returned after two frames, the first of three chunks, with nothing left
C25_Witness ==
    /\ rpc = "done" /\ raw = <<>>
    /\ Len(read) = 2
    /\ Len(read[1].chunks) = 3
    /\ Len(body) = 16 + 7 + 9 + 7 + 16 + 7

====
